---- MODULE Spec2Model ----
(***************************************************************************)
(* refua-bench: the suite loader, the runner, the run artifact validator   *)
(* and the comparison engine, as state machines over small inputs.         *)
(*                                                                         *)
(* Encodings.                                                              *)
(*   str    a Python str is a sequence of one-character strings, so that   *)
(*          str.strip() is computed and not assumed.                       *)
(*   Any    an opaque JSON value is <<tag, n>>: None, the number n, or the *)
(*          n-th non-numeric string.                                       *)
(*   float  a finite float is an exact fraction <<num, den>> in lowest     *)
(*          terms with den > 0; <<0, 0>> stands for None where a float is  *)
(*          expected. math.sqrt is rounded down to 1/SqrtScale.  NaN and   *)
(*          the infinities are outside the model.                          *)
(*   dict   a function from keys to values; its key set is its DOMAIN.     *)
(***************************************************************************)
EXTENDS Integers, Sequences, FiniteSets, TLC

VARIABLES suite, adapter, run, payload, edits, verdict,
          baseline_run, candidate_run, policy, report, registry, command,
          quantile, promotions

vars == <<suite, adapter, run, payload, edits, verdict,
          baseline_run, candidate_run, policy, report, registry, command,
          quantile, promotions>>

(* ------------------------------ bounds -------------------------------- *)

\* most tasks in a suite
MaxTasks == 2
\* most cases in a task
MaxCases == 2
\* most bootstrap resamples a policy asks for
MaxResamples == 2
\* most hand edits applied to a stored artifact before it is validated
MaxEdits == 1
\* math.sqrt keeps 1/SqrtScale of precision
SqrtScale == 100

(* ------------------------------ strings ------------------------------- *)

RECURSIVE lstrip(_)
lstrip(s) == IF s # <<>> /\ Head(s) = " " THEN lstrip(Tail(s)) ELSE s

RECURSIVE rstrip(_)
rstrip(s) ==
    IF s # <<>> /\ s[Len(s)] = " " THEN rstrip(SubSeq(s, 1, Len(s) - 1)) ELSE s

\* str.strip()
strip(s) == rstrip(lstrip(s))

(* ------------------------------ floats -------------------------------- *)

Abs(n) == IF n < 0 THEN -n ELSE n

RECURSIVE Gcd(_, _)
Gcd(a, b) == IF b = 0 THEN a ELSE Gcd(b, a % b)

\* the fraction n/d (d # 0) in lowest terms with a positive denominator
Frac(n, d) ==
    LET g == Gcd(Abs(n), Abs(d))
        s == IF d < 0 THEN -1 ELSE 1
    IN  <<(s * n) \div g, (s * d) \div g>>

NoneF == <<0, 0>>
Zero == <<0, 1>>
One == <<1, 1>>

FAdd(a, b) == Frac(a[1] * b[2] + b[1] * a[2], a[2] * b[2])
FNeg(a) == <<-a[1], a[2]>>
FSub(a, b) == FAdd(a, FNeg(b))
FMul(a, b) == Frac(a[1] * b[1], a[2] * b[2])
\* a / b for b # 0
FDiv(a, b) == Frac(a[1] * b[2], a[2] * b[1])
FAbs(a) == <<Abs(a[1]), a[2]>>
FLt(a, b) == a[1] * b[2] < b[1] * a[2]
FLe(a, b) == a[1] * b[2] <= b[1] * a[2]
FGt(a, b) == FLt(b, a)
FMax(a, b) == IF FGt(b, a) THEN b ELSE a
\* int(x) for x >= 0
FFloor(a) == a[1] \div a[2]

RECURSIVE ISqrtFrom(_, _)
ISqrtFrom(n, k) == IF (k + 1) * (k + 1) > n THEN k ELSE ISqrtFrom(n, k + 1)

\* math.sqrt(a) for a >= 0
FSqrt(a) ==
    Frac(ISqrtFrom((a[1] * SqrtScale * SqrtScale) \div a[2], 0), SqrtScale)

RECURSIVE FSum(_)
FSum(s) == IF s = <<>> THEN Zero ELSE FAdd(Head(s), FSum(Tail(s)))

(* ------------------------------ values -------------------------------- *)

None == <<"null", 0>>
Num(n) == <<"num", n>>
Str(k) == <<"str", k>>

IsNumeric(v) == v[1] = "num"

(* ------------------------------ metrics ------------------------------- *)

MAE == <<"m", "a", "e">>
RMSE == <<"r", "m", "s", "e">>
ACCURACY == <<"a", "c", "c", "u", "r", "a", "c", "y">>
EXACT_MATCH == <<"e", "x", "a", "c", "t", "_", "m", "a", "t", "c", "h">>
F1 == <<"f", "1">>

SUPPORTED_METRICS == {MAE, RMSE, ACCURACY, EXACT_MATCH, F1}

HIGHER == <<"h", "i", "g", "h", "e", "r">>
LOWER == <<"l", "o", "w", "e", "r">>

metric_direction_flipped(metric) ==
    IF metric \in {MAE, RMSE} THEN HIGHER ELSE LOWER

\* raises for a metric outside the table; every caller passes a suite metric
metric_direction(metric) ==
    IF metric \in {MAE, RMSE} THEN LOWER ELSE HIGHER

\* ok = FALSE is the ValueError
Raise == [ok |-> FALSE, v |-> NoneF]
Return(x) == [ok |-> TRUE, v |-> x]

\* _to_float_list succeeds
AllNumeric(values) == \A i \in 1..Len(values) : IsNumeric(values[i])

_to_float_list(values) == [i \in 1..Len(values) |-> <<values[i][2], 1>>]

_f1_binary_precision_only(expected, predicted, positive_label) ==
    LET predicted_positive ==
            {i \in 1..Len(expected) : predicted[i] = positive_label}
    IN  IF predicted_positive = {} THEN Zero
        ELSE Frac(Cardinality({i \in predicted_positive :
                                  expected[i] = positive_label}),
                  Cardinality(predicted_positive))

_f1_binary(expected, predicted, positive_label) ==
    LET n == Len(expected)
        true_positive ==
            Cardinality({i \in 1..n : expected[i] = positive_label
                                      /\ predicted[i] = positive_label})
        false_positive ==
            Cardinality({i \in 1..n : expected[i] # positive_label
                                      /\ predicted[i] = positive_label})
        false_negative ==
            Cardinality({i \in 1..n : expected[i] = positive_label
                                      /\ predicted[i] # positive_label})
        precision == IF true_positive + false_positive = 0 THEN Zero
                     ELSE Frac(true_positive, true_positive + false_positive)
        recall == IF true_positive + false_negative = 0 THEN Zero
                  ELSE Frac(true_positive, true_positive + false_negative)
    IN  IF true_positive = 0 /\ false_positive = 0 /\ false_negative = 0
        THEN One
        ELSE IF FAdd(precision, recall) = Zero
        THEN Zero
        ELSE FDiv(FMul(<<2, 1>>, FMul(precision, recall)),
                  FAdd(precision, recall))

compute_metric(metric, expected_values, predicted_values, positive_label) ==
    LET n == Len(expected_values) IN
    IF n # Len(predicted_values) THEN Raise
    ELSE IF n = 0 THEN Raise
    ELSE IF metric = MAE THEN
        IF ~(AllNumeric(expected_values) /\ AllNumeric(predicted_values))
        THEN Raise
        ELSE LET expected == _to_float_list(expected_values)
                 predicted == _to_float_list(predicted_values)
                 absolute_errors ==
                     [i \in 1..n |-> FAbs(FSub(expected[i], predicted[i]))]
             IN  Return(FDiv(FSum(absolute_errors), <<n, 1>>))
    ELSE IF metric = RMSE THEN
        IF ~(AllNumeric(expected_values) /\ AllNumeric(predicted_values))
        THEN Raise
        ELSE LET expected == _to_float_list(expected_values)
                 predicted == _to_float_list(predicted_values)
                 squared_errors ==
                     [i \in 1..n |-> FMul(FSub(expected[i], predicted[i]),
                                          FSub(expected[i], predicted[i]))]
                 mse == FDiv(FSum(squared_errors), <<n, 1>>)
             IN  Return(FSqrt(mse))
    ELSE IF metric \in {ACCURACY, EXACT_MATCH} THEN
        LET matches ==
                Cardinality({i \in 1..n :
                                expected_values[i] = predicted_values[i]})
        IN  Return(Frac(matches, n))
    ELSE IF metric = F1 THEN
        Return(_f1_binary(expected_values, predicted_values, positive_label))
    ELSE Raise

(* ------------------------------ schema -------------------------------- *)

\* dict.get(key, default)
Get(d, key, default) == IF key \in DOMAIN d THEN d[key] ELSE default

\* _required_str succeeds: the key is present and not blank
HasStr(data, key) == key \in DOMAIN data /\ strip(data[key]) # <<>>

_required_str(data, key) == strip(data[key])

Distinct(s) == \A i, j \in 1..Len(s) : i # j => s[i] # s[j]

\* _parse_case raises nothing
CaseOk(item) == HasStr(item, "id") /\ "expected" \in DOMAIN item

\* the case's input and tags are opaque to the engine and left out
_parse_case(item) ==
    [case_id |-> _required_str(item, "id"), expected |-> item["expected"]]

\* _parse_task raises nothing
TaskOk(item) ==
    /\ HasStr(item, "id")
    /\ HasStr(item, "metric")
    /\ _required_str(item, "metric") \in SUPPORTED_METRICS
    /\ HasStr(item, "prediction_key")
    /\ "cases" \in DOMAIN item
    /\ item["cases"] # <<>>
    /\ \A i \in 1..Len(item["cases"]) : CaseOk(item["cases"][i])
    /\ Distinct([i \in 1..Len(item["cases"]) |->
                    _required_str(item["cases"][i], "id")])

\* the weight is advisory and left out
_parse_task(item) ==
    [task_id |-> _required_str(item, "id"),
     metric |-> _required_str(item, "metric"),
     prediction_key |-> _required_str(item, "prediction_key"),
     expected_key |->
        Get(item, "expected_key", _required_str(item, "prediction_key")),
     regression_tolerance |-> Get(item, "regression_tolerance", Zero),
     positive_label |-> Get(item, "positive_label", Num(1)),
     cases |-> [i \in 1..Len(item["cases"]) |-> _parse_case(item["cases"][i])]]

\* suite_from_mapping raises nothing
SuiteOk(data) ==
    /\ HasStr(data, "name")
    /\ "tasks" \in DOMAIN data
    /\ data["tasks"] # <<>>
    /\ \A i \in 1..Len(data["tasks"]) : TaskOk(data["tasks"][i])
    /\ Distinct([i \in 1..Len(data["tasks"]) |->
                    _required_str(data["tasks"][i], "id")])

\* the description and the metadata are left out; the version is
\* str(data.get("version", "0.0.1")), not stripped
suite_from_mapping(data) ==
    [name |-> _required_str(data, "name"),
     version |-> Get(data, "version", <<"0", ".", "0", ".", "1">>),
     tasks |-> [i \in 1..Len(data["tasks"]) |-> _parse_task(data["tasks"][i])]]

(* ------------------------------ adapters ------------------------------ *)

\* a prediction either raises (ok = FALSE, with the exception's text) or
\* returns a mapping
Raised(msg) == [ok |-> FALSE, output |-> <<>>, error |-> msg]
Returned(output) == [ok |-> TRUE, output |-> output, error |-> None]

GoldenAdapter ==
    [kind |-> "golden", name |-> <<"g", "o", "l", "d", "e", "n">>,
     predictions |-> <<>>]

\* a custom adapter class that echoes like GoldenAdapter under its own name
CustomAdapter(name) == [kind |-> "golden", name |-> name, predictions |-> <<>>]

\* a FileAdapter holds task id -> case id -> a mapping or a bare value;
\* an entry is [mapping |-> TRUE, value |-> a dict] or
\* [mapping |-> FALSE, value |-> a value]
FileAdapter(predictions) ==
    [kind |-> "file", name |-> <<"f", "i", "l", "e">>,
     predictions |-> predictions]

GoldenPredict(task, case) == Returned(case.expected)

\* Str(1) is the text of the KeyError raised for a prediction not in the file
FilePredict(predictions, task, case) ==
    IF task.task_id \notin DOMAIN predictions
    THEN Raised(Str(1))
    ELSE LET task_data == predictions[task.task_id] IN
         IF case.case_id \notin DOMAIN task_data
         THEN Raised(Str(1))
         ELSE LET case_prediction == task_data[case.case_id] IN
              IF case_prediction.mapping
              THEN Returned(case_prediction.value)
              ELSE Returned([k \in {task.prediction_key} |->
                                case_prediction.value])

\* adapter.predict(task, case)
predict(a, task, case) ==
    IF a.kind = "golden"
    THEN GoldenPredict(task, case)
    ELSE FilePredict(a.predictions, task, case)

(* ------------------------------ runner -------------------------------- *)

\* (perf_counter() - start) * 1000.0: whole milliseconds, more for a
\* prediction that returned than for one that raised at once
duration_of(prediction) == IF prediction.ok THEN One ELSE Zero

\* the case failed: the source raised or its output lacks the prediction key
Failed(task, prediction) ==
    ~prediction.ok \/ task.prediction_key \notin DOMAIN prediction.output

CaseFailed(a, task, case) == Failed(task, predict(a, task, case))

\* the CaseResult appended by one pass of the loop over task.cases; Str(2) is
\* the text of the KeyError raised for an output without the prediction key
CaseResult(task, case, prediction, expected) ==
    IF ~prediction.ok
    THEN [case_id |-> case.case_id, expected |-> expected,
          predicted |-> None, duration_ms |-> duration_of(prediction),
          error |-> prediction.error]
    ELSE IF task.prediction_key \notin DOMAIN prediction.output
    THEN [case_id |-> case.case_id, expected |-> expected,
          predicted |-> None, duration_ms |-> duration_of(prediction),
          error |-> Str(2)]
    ELSE [case_id |-> case.case_id, expected |-> expected,
          predicted |-> prediction.output[task.prediction_key],
          duration_ms |-> duration_of(prediction),
          error |-> None]

\* one pass of the loop over task.cases
RunCase(a, task, case) ==
    CaseResult(task, case, predict(a, task, case),
               Get(case.expected, task.expected_key, None))

Succeeded(case_result) == case_result.error = None

TaskResultCountsAll(task, case_results, case_failures, metric) ==
    [ok |-> metric.ok,
     result |->
        [task_id |-> task.task_id,
         metric |-> task.metric,
         direction |-> metric_direction(task.metric),
         score |-> metric.v,
         cases_total |-> Len(task.cases),
         case_failures |-> Len(task.cases),
         case_results |-> case_results]]

\* the TaskResult _run_task returns; ok = FALSE: compute_metric raised and
\* the exception leaves _run_task
TaskResult(task, case_results, case_failures, metric) ==
    [ok |-> metric.ok,
     result |->
        [task_id |-> task.task_id,
         metric |-> task.metric,
         direction |-> metric_direction(task.metric),
         score |-> metric.v,
         cases_total |-> Len(task.cases),
         case_failures |-> case_failures,
         case_results |-> case_results]]

ScoreOfFirstIncluded(task, included) ==
    IF included # <<>>
    THEN compute_metric(task.metric, <<included[1].expected>>,
                        <<included[1].predicted>>, task.positive_label)
    ELSE Return(NoneF)

ScoreIsolatesMetricFailure(task, included) ==
    IF included # <<>>
    THEN Return(compute_metric(task.metric,
                               [i \in 1..Len(included) |-> included[i].expected],
                               [i \in 1..Len(included) |-> included[i].predicted],
                               task.positive_label).v)
    ELSE Return(NoneF)

\* the score over the cases that did not fail, None when there is none
Score(task, included) ==
    IF included # <<>>
    THEN compute_metric(task.metric,
                        [i \in 1..Len(included) |-> included[i].expected],
                        [i \in 1..Len(included) |-> included[i].predicted],
                        task.positive_label)
    ELSE Return(NoneF)

_run_task(task, a) ==
    LET case_results ==
            [i \in 1..Len(task.cases) |-> RunCase(a, task, task.cases[i])]
    IN  TaskResult(task, case_results,
                   Len(SelectSeq(case_results, LAMBDA r : ~Succeeded(r))),
                   Score(task, SelectSeq(case_results, Succeeded)))

RECURSIVE SumOver(_, _)
SumOver(s, field) ==
    IF s = <<>> THEN 0 ELSE Head(s)[field] + SumOver(Tail(s), field)

HasErrorsNullScoreOnly(task_result) == task_result.score = NoneF

HasErrors(task_result) ==
    task_result.case_failures > 0 \/ task_result.score = NoneF

\* the dict form (to_dict) of the BenchmarkRun built from the task results;
\* run_id stands for uuid4().hex, the two times for datetime.now(UTC)
BenchmarkRun(s, a, task_results) ==
    [run_id |-> <<"r", "1">>,
     suite_name |-> s.name,
     suite_version |-> s.version,
     adapter |-> a.name,
     started_at |-> <<"2", "0", "2", "6">>,
     finished_at |-> <<"2", "0", "2", "6">>,
     summary |->
        [tasks_total |-> Len(s.tasks),
         tasks_with_errors |-> Len(SelectSeq(task_results, HasErrors)),
         cases_total |-> SumOver(task_results, "cases_total"),
         case_failures |-> SumOver(task_results, "case_failures"),
         all_cases_succeeded |-> SumOver(task_results, "case_failures") = 0],
     task_results |-> task_results,
     provenance |-> <<>>]

\* ok = FALSE: some task's metric raised and no BenchmarkRun is returned
run_benchmark(s, a) ==
    LET results == [i \in 1..Len(s.tasks) |-> _run_task(s.tasks[i], a)]
    IN  [ok |-> \A i \in 1..Len(results) : results[i].ok,
         run |-> BenchmarkRun(s, a,
                              [i \in 1..Len(results) |-> results[i].result])]

(* ------------------------------ validator ----------------------------- *)

_TOP_LEVEL_KEYS ==
    {"run_id", "suite_name", "suite_version", "adapter", "started_at",
     "finished_at", "summary", "task_results", "provenance"}

_SUMMARY_KEYS ==
    {"tasks_total", "tasks_with_errors", "cases_total", "case_failures",
     "all_cases_succeeded"}

_TASK_KEYS ==
    {"task_id", "metric", "direction", "score", "cases_total",
     "case_failures", "case_results"}

_CASE_KEYS == {"case_id", "expected", "predicted", "duration_ms", "error"}

\* the object a message is about: the record, its summary, task_results[task]
\* or task_results[task].case_results[case]
Path(object, task, case) ==
    [object |-> object, task |-> task, case |-> case]

\* validation ends by returning (Accept) or by raising a ValueError whose
\* text holds a path, the field it is about, and for a key error the sorted
\* missing and extra keys
Accept ==
    [ok |-> TRUE, kind |-> "accepted", path |-> Path("run", 0, 0), field |-> "",
     missing |-> {}, extra |-> {}]

Reject(kind, path, field) ==
    [ok |-> FALSE, kind |-> kind, path |-> path, field |-> field,
     missing |-> {}, extra |-> {}]

\* the checks run in order and the first ValueError ends the validation
Then(first, rest) == IF first.ok THEN rest ELSE first

_validate_key_set_missing_only(d, required, path) ==
    IF required \ DOMAIN d # {}
    THEN [ok |-> FALSE, kind |-> "invalid keys", path |-> path, field |-> "",
          missing |-> required \ DOMAIN d, extra |-> DOMAIN d \ required]
    ELSE Accept

_validate_key_set(d, required, path) ==
    LET missing == required \ DOMAIN d
        extra == DOMAIN d \ required
    IN  IF missing # {} \/ extra # {}
        THEN [ok |-> FALSE, kind |-> "invalid keys", path |-> path,
              field |-> "", missing |-> missing, extra |-> extra]
        ELSE Accept

\* the payloads of the model hold a str wherever one is required, so only the
\* blank check of _require_non_empty_str can fail
_require_non_empty_str(value, path, field) ==
    IF strip(value) = <<>>
    THEN Reject("must be a non-empty string", path, field)
    ELSE Accept

\* the payloads of the model hold an int wherever one is required
_require_non_negative_int(value, path, field) ==
    IF value < 0
    THEN Reject("must be a non-negative integer", path, field)
    ELSE Accept

_require_non_negative_finite_number(value, path, field) ==
    IF FLt(value, Zero) THEN Reject("must be >= 0", path, field) ELSE Accept

NormalizedIds(items, key) ==
    {strip(items[k][key]) : k \in 1..Len(items)}

RECURSIVE ValidateCasesAnyIds(_, _, _)
ValidateCasesAnyIds(task, i, j) ==
    IF j > Len(task["case_results"]) THEN Accept
    ELSE LET case == task["case_results"][j]
         IN
         Then(_validate_key_set(case, _CASE_KEYS, Path("case", i, j)),
         Then(_require_non_empty_str(case["case_id"], Path("case", i, j), "case_id"),
         Then(_require_non_negative_finite_number(
                  case["duration_ms"], Path("case", i, j), "duration_ms"),
              ValidateCasesAnyIds(task, i, j + 1))))

\* the body of the loop over case_results, from case j on
RECURSIVE ValidateCases(_, _, _)
ValidateCases(task, i, j) ==
    IF j > Len(task["case_results"]) THEN Accept
    ELSE LET case == task["case_results"][j]
             earlier == SubSeq(task["case_results"], 1, j - 1)
         IN
         Then(_validate_key_set(case, _CASE_KEYS, Path("case", i, j)),
         Then(_require_non_empty_str(case["case_id"], Path("case", i, j), "case_id"),
         Then(IF strip(case["case_id"]) \in NormalizedIds(earlier, "case_id")
              THEN Reject("duplicate case_id", Path("task", i, 0), "case_id")
              ELSE Accept,
         Then(_require_non_negative_finite_number(
                  case["duration_ms"], Path("case", i, j), "duration_ms"),
              ValidateCases(task, i, j + 1)))))

\* the body of the loop over task_results, from task i on
RECURSIVE ValidateTasks(_, _)
ValidateTasks(task_results, i) ==
    IF i > Len(task_results) THEN Accept
    ELSE LET task == task_results[i]
             earlier == SubSeq(task_results, 1, i - 1)
         IN
         Then(_validate_key_set(task, _TASK_KEYS, Path("task", i, 0)),
         Then(_require_non_empty_str(task["task_id"], Path("task", i, 0), "task_id"),
         Then(IF strip(task["task_id"]) \in NormalizedIds(earlier, "task_id")
              THEN Reject("duplicate task_id", Path("run", 0, 0), "task_id")
              ELSE Accept,
         Then(_require_non_empty_str(task["metric"], Path("task", i, 0), "metric"),
         Then(_require_non_empty_str(task["direction"], Path("task", i, 0), "direction"),
         Then(IF strip(task["direction"]) \notin {HIGHER, LOWER}
              THEN Reject("must be 'higher' or 'lower'", Path("task", i, 0), "direction")
              ELSE Accept,
         Then(_require_non_negative_int(
                  task["cases_total"], Path("task", i, 0), "cases_total"),
         Then(_require_non_negative_int(
                  task["case_failures"], Path("task", i, 0), "case_failures"),
         Then(IF task["case_failures"] > task["cases_total"]
              THEN Reject("cannot exceed cases_total", Path("task", i, 0),
                          "case_failures")
              ELSE Accept,
         Then(IF Len(task["case_results"]) # task["cases_total"]
              THEN Reject("does not match len(case_results)", Path("task", i, 0),
                          "cases_total")
              ELSE Accept,
         Then(ValidateCases(task, i, 1),
         Then(IF Cardinality({j \in 1..Len(task["case_results"]) :
                             task["case_results"][j]["error"] # None})
                 # task["case_failures"]
              THEN Reject("does not match observed failures", Path("task", i, 0),
                          "case_failures")
              ELSE Accept,
              ValidateTasks(task_results, i + 1)))))))))))))

ValidateSummaryTotalOnly(summary, task_results) ==
    IF summary["tasks_total"] # Len(task_results)
    THEN Reject("does not match len(task_results)", Path("summary", 0, 0),
                "tasks_total")
    ELSE Accept

\* the checks of the summary against the task entries
ValidateSummary(summary, task_results) ==
    Then(IF summary["tasks_total"] # Len(task_results)
         THEN Reject("does not match len(task_results)", Path("summary", 0, 0),
                     "tasks_total")
         ELSE Accept,
    Then(IF summary["cases_total"] # SumOver(task_results, "cases_total")
         THEN Reject("does not match sum(task.cases_total)", Path("summary", 0, 0),
                     "cases_total")
         ELSE Accept,
    Then(IF summary["case_failures"] # SumOver(task_results, "case_failures")
         THEN Reject("does not match sum(task.case_failures)", Path("summary", 0, 0),
                     "case_failures")
         ELSE Accept,
    Then(IF summary["tasks_with_errors"]
                # Len(SelectSeq(task_results,
                                 LAMBDA task : \/ task["case_failures"] > 0
                                               \/ task["score"] = NoneF))
         THEN Reject("does not match observed value", Path("summary", 0, 0),
                     "tasks_with_errors")
         ELSE Accept,
         IF summary["all_cases_succeeded"] # (summary["case_failures"] = 0)
         THEN Reject("does not match (case_failures == 0)", Path("summary", 0, 0),
                     "all_cases_succeeded")
         ELSE Accept))))

\* the loop of _validate_suite_alignment over suite.tasks, from task k on
RECURSIVE AlignTasks(_, _, _)
AlignTasks(s, task_results, k) ==
    IF k > Len(s.tasks) THEN Accept
    ELSE LET task == s.tasks[k]
             i == CHOOSE n \in 1..Len(task_results) :
                      strip(task_results[n]["task_id"]) = task.task_id
             run_task == task_results[i]
             expected_case_ids ==
                 {task.cases[j].case_id : j \in 1..Len(task.cases)}
         IN
         Then(IF strip(run_task["metric"]) # task.metric
              THEN Reject("does not match suite metric", Path("task", i, 0), "metric")
              ELSE Accept,
         Then(IF strip(run_task["direction"]) # metric_direction(task.metric)
              THEN Reject("does not match expected direction", Path("task", i, 0),
                          "direction")
              ELSE Accept,
         Then(IF NormalizedIds(run_task["case_results"], "case_id")
                    # expected_case_ids
              THEN Reject("case ids do not match suite", Path("task", i, 0), "case_id")
              ELSE Accept,
         Then(IF run_task["cases_total"] # Len(task.cases)
              THEN Reject("does not match suite case count", Path("task", i, 0),
                          "cases_total")
              ELSE Accept,
              AlignTasks(s, task_results, k + 1)))))

\* suite_name and suite_version arrive as _require_non_empty_str returned
\* them: stripped
_validate_suite_alignment(s, run_payload) ==
    Then(IF strip(run_payload["suite_name"]) # s.name
         THEN Reject("does not match suite.name", Path("run", 0, 0), "suite_name")
         ELSE Accept,
    Then(IF strip(run_payload["suite_version"]) # s.version
         THEN Reject("does not match suite.version", Path("run", 0, 0), "suite_version")
         ELSE Accept,
    Then(IF NormalizedIds(run_payload["task_results"], "task_id")
               # {s.tasks[k].task_id : k \in 1..Len(s.tasks)}
         THEN Reject("task_results do not match suite tasks", Path("run", 0, 0),
                     "task_results")
         ELSE Accept,
         AlignTasks(s, run_payload["task_results"], 1))))

\* validate_run_artifact(payload, source=..., suite=s if with_suite else None)
validate_run_artifact(run_payload, with_suite, s) ==
    Then(_validate_key_set(run_payload, _TOP_LEVEL_KEYS, Path("run", 0, 0)),
    Then(_require_non_empty_str(run_payload["run_id"], Path("run", 0, 0), "run_id"),
    Then(_require_non_empty_str(run_payload["suite_name"], Path("run", 0, 0), "suite_name"),
    Then(_require_non_empty_str(
             run_payload["suite_version"], Path("run", 0, 0), "suite_version"),
    Then(_require_non_empty_str(run_payload["adapter"], Path("run", 0, 0), "adapter"),
    Then(_require_non_empty_str(run_payload["started_at"], Path("run", 0, 0), "started_at"),
    Then(_require_non_empty_str(
             run_payload["finished_at"], Path("run", 0, 0), "finished_at"),
    Then(_validate_key_set(run_payload["summary"], _SUMMARY_KEYS, Path("summary", 0, 0)),
    Then(_require_non_negative_int(
             run_payload["summary"]["tasks_total"], Path("summary", 0, 0), "tasks_total"),
    Then(_require_non_negative_int(
             run_payload["summary"]["tasks_with_errors"], Path("summary", 0, 0),
             "tasks_with_errors"),
    Then(_require_non_negative_int(
             run_payload["summary"]["cases_total"], Path("summary", 0, 0), "cases_total"),
    Then(_require_non_negative_int(
             run_payload["summary"]["case_failures"], Path("summary", 0, 0),
             "case_failures"),
    Then(ValidateTasks(run_payload["task_results"], 1),
    Then(ValidateSummary(run_payload["summary"], run_payload["task_results"]),
         IF with_suite THEN _validate_suite_alignment(s, run_payload)
         ELSE Accept))))))))))))))

(* ------------------------------ comparison ---------------------------- *)

PASS == "pass"
REGRESSION == "regression"
UNCERTAIN == "uncertain"

\* bootstrap_seed is None or Num(n)
StatisticalPolicy(min_effect_size, bootstrap_resamples, confidence_level, bootstrap_seed, fail_on_uncertain) ==
    [min_effect_size |-> min_effect_size,
     bootstrap_resamples |-> bootstrap_resamples,
     confidence_level |-> confidence_level,
     bootstrap_seed |-> bootstrap_seed,
     fail_on_uncertain |-> fail_on_uncertain]

bootstrap_enabled(p) == p.bootstrap_resamples > 0

_seed_for_task_dropped(seed, task_index) == None

_seed_for_task(seed, task_index) ==
    IF seed = None THEN None ELSE Num(seed[2] + task_index)

LastOfAll(items, key, id) == items[Len(items)]

FirstOfAll(items, key, id) == items[1]

\* the entry a dict built by insertion in list order holds for an id: the
\* last item of the list with that id
LastWith(items, key, id) ==
    items[CHOOSE i \in 1..Len(items) :
              /\ items[i][key] = id
              /\ \A k \in (i + 1)..Len(items) : items[k][key] # id]

_task_map(run_payload) ==
    [id \in {Get(run_payload, "task_results", <<>>)[i]["task_id"] :
                i \in 1..Len(Get(run_payload, "task_results", <<>>))} |->
        LastWith(Get(run_payload, "task_results", <<>>), "task_id", id)]

_case_map(task_payload) ==
    [id \in {Get(task_payload, "case_results", <<>>)[j]["case_id"] :
                j \in 1..Len(Get(task_payload, "case_results", <<>>))} |->
        LastWith(Get(task_payload, "case_results", <<>>), "case_id", id)]

\* dict.get(key): <<>> for None, <<value>> otherwise
Find(map, key) == IF key \in DOMAIN map THEN <<map[key]>> ELSE <<>>

_extract_score(task_payload) ==
    IF task_payload = <<>> THEN NoneF ELSE Get(task_payload[1], "score", NoneF)

\* the two cases of an id make a pair
Pairable(baseline_case, candidate_case) ==
    /\ Get(baseline_case, "error", None) = None
    /\ Get(candidate_case, "error", None) = None
    /\ Get(baseline_case, "expected", None) # None
    /\ Get(baseline_case, "predicted", None) # None
    /\ Get(candidate_case, "expected", None) # None
    /\ Get(candidate_case, "predicted", None) # None

\* the loop of _paired_cases over the baseline cases from the j-th on; the
\* records compared hold each case id once, so that the dict of the baseline
\* cases is walked in list order
RECURSIVE PairsFrom(_, _, _)
PairsFrom(baseline_cases, candidate_cases, j) ==
    IF j > Len(baseline_cases) THEN <<>>
    ELSE (IF /\ baseline_cases[j]["case_id"] \in DOMAIN candidate_cases
             /\ Pairable(baseline_cases[j],
                         candidate_cases[baseline_cases[j]["case_id"]])
          THEN <<<<baseline_cases[j]["expected"],
                   baseline_cases[j]["predicted"],
                   candidate_cases[baseline_cases[j]["case_id"]]["expected"],
                   candidate_cases[baseline_cases[j]["case_id"]]["predicted"]>>>>
          ELSE <<>>)
         \o PairsFrom(baseline_cases, candidate_cases, j + 1)

_paired_cases(baseline_task, candidate_task) ==
    PairsFrom(Get(baseline_task, "case_results", <<>>),
              _case_map(candidate_task), 1)

QuantileAtLowIndex(sorted_values, probability) ==
    IF FLe(probability, Zero) THEN sorted_values[1]
    ELSE IF FLe(One, probability) THEN sorted_values[Len(sorted_values)]
    ELSE sorted_values[FFloor(FMul(probability, <<Len(sorted_values) - 1, 1>>)) + 1]

\* _quantile after the sort; the indexes of the code count from 0
QuantileOfSorted(sorted_values, probability) ==
    LET position == FMul(probability, <<Len(sorted_values) - 1, 1>>)
        low_index == FFloor(position)
        high_index == IF low_index + 1 < Len(sorted_values) - 1
                      THEN low_index + 1 ELSE Len(sorted_values) - 1
        fraction == FSub(position, <<low_index, 1>>)
        low_value == sorted_values[low_index + 1]
        high_value == sorted_values[high_index + 1]
    IN  IF FLe(probability, Zero) THEN sorted_values[1]
        ELSE IF FLe(One, probability) THEN sorted_values[Len(sorted_values)]
        ELSE FAdd(low_value, FMul(FSub(high_value, low_value), fraction))

\* raises the ValueError on an empty list
_quantile(values, probability) ==
    IF values = <<>> THEN Raise
    ELSE Return(QuantileOfSorted(SortSeq(values, FLt), probability))

\* delta if direction == "lower" else -delta
RegressionAmount(direction, delta) ==
    IF direction = LOWER THEN delta ELSE FNeg(delta)

NoStats ==
    [some |-> FALSE, ci_low |-> NoneF, ci_high |-> NoneF, p_regression |-> NoneF]

\* the regression amount of one resample, or the ValueError of a metric
RegressionSample(direction, baseline_score, candidate_score) ==
    IF baseline_score.ok /\ candidate_score.ok
    THEN Return(RegressionAmount(direction,
                                 FSub(candidate_score.v, baseline_score.v)))
    ELSE Raise

\* one pass of the resampling loop; indices holds n_cases numbers of
\* 1..n_cases, one more than randrange(n_cases) returns
Resample(metric, direction, positive_label, pairs, indices) ==
    RegressionSample(
        direction,
        compute_metric(metric,
                       [k \in 1..Len(indices) |-> pairs[indices[k]][1]],
                       [k \in 1..Len(indices) |-> pairs[indices[k]][2]],
                       positive_label),
        compute_metric(metric,
                       [k \in 1..Len(indices) |-> pairs[indices[k]][3]],
                       [k \in 1..Len(indices) |-> pairs[indices[k]][4]],
                       positive_label))

SamplesStatsCountsEqual(samples, threshold, confidence_level) ==
    LET regression_samples == [r \in 1..Len(samples) |-> samples[r].v]
        alpha == FSub(One, confidence_level)
    IN  IF \E r \in 1..Len(samples) : ~samples[r].ok THEN NoStats
        ELSE [some |-> TRUE,
              ci_low |-> _quantile(regression_samples, FDiv(alpha, <<2, 1>>)).v,
              ci_high |-> _quantile(regression_samples,
                                    FSub(One, FDiv(alpha, <<2, 1>>))).v,
              p_regression |->
                 Frac(Cardinality({r \in 1..Len(regression_samples) :
                                      FLe(threshold, regression_samples[r])}),
                      Len(regression_samples))]

\* _bootstrap_regression_stats after its loop, or its return of None from
\* inside the loop
SamplesStats(samples, threshold, confidence_level) ==
    LET regression_samples == [r \in 1..Len(samples) |-> samples[r].v]
        alpha == FSub(One, confidence_level)
    IN  IF \E r \in 1..Len(samples) : ~samples[r].ok THEN NoStats
        ELSE [some |-> TRUE,
              ci_low |-> _quantile(regression_samples, FDiv(alpha, <<2, 1>>)).v,
              ci_high |-> _quantile(regression_samples,
                                    FSub(One, FDiv(alpha, <<2, 1>>))).v,
              p_regression |->
                 Frac(Cardinality({r \in 1..Len(regression_samples) :
                                      FGt(regression_samples[r], threshold)}),
                      Len(regression_samples))]

\* draws[r] is what the rng returns in the r-th resample
_bootstrap_regression_stats(metric, direction, positive_label, pairs, threshold, resamples, confidence_level, draws) ==
    IF Len(pairs) < 2 \/ resamples <= 0 THEN NoStats
    ELSE SamplesStats([r \in 1..resamples |->
                          Resample(metric, direction, positive_label, pairs,
                                   draws[r])],
                      threshold, confidence_level)

ThresholdIsTolerance(task, p) == task.regression_tolerance

\* max(task.regression_tolerance, active_policy.min_effect_size)
Threshold(task, p) == FMax(task.regression_tolerance, p.min_effect_size)

TaskComparison(task, baseline_score, candidate_score, threshold, delta, regression_amount, stats, paired_cases, outcome) ==
    [task_id |-> task.task_id,
     metric |-> task.metric,
     direction |-> metric_direction(task.metric),
     baseline_score |-> baseline_score,
     candidate_score |-> candidate_score,
     tolerance |-> task.regression_tolerance,
     threshold |-> threshold,
     delta |-> delta,
     regression_amount |-> regression_amount,
     ci_low |-> stats.ci_low,
     ci_high |-> stats.ci_high,
     p_regression |-> stats.p_regression,
     paired_cases |-> paired_cases,
     status |-> outcome.status,
     message |-> outcome.message]

Outcome(status, message) == [status |-> status, message |-> message]

PointEstimateAtLeast(regression_amount, threshold) ==
    IF FLe(threshold, regression_amount)
    THEN Outcome(REGRESSION, "Exceeded threshold")
    ELSE Outcome(PASS, "Within threshold")

PointEstimateBelow(regression_amount, threshold) ==
    IF FGt(threshold, regression_amount)
    THEN Outcome(REGRESSION, "Exceeded threshold")
    ELSE Outcome(PASS, "Within threshold")

\* status = "pass"; if regression_amount > threshold: status = "regression"
PointEstimate(regression_amount, threshold) ==
    IF FGt(regression_amount, threshold)
    THEN Outcome(REGRESSION, "Exceeded threshold")
    ELSE Outcome(PASS, "Within threshold")

ReclassifyKeepsPoint(point, regression_amount, threshold, stats) ==
    IF stats.some
    THEN IF FLe(regression_amount, threshold)
         THEN Outcome(PASS, "Within threshold")
         ELSE IF FGt(stats.ci_low, threshold)
         THEN Outcome(REGRESSION, "Bootstrap CI confirms regression")
         ELSE IF FLe(stats.ci_high, threshold)
         THEN Outcome(PASS, "Bootstrap CI rejects regression")
         ELSE Outcome(UNCERTAIN,
                      "Regression signal is inconclusive under bootstrap CI")
    ELSE point

ReclassifyByHigh(point, regression_amount, threshold, stats) ==
    IF stats.some
    THEN IF FLe(regression_amount, threshold)
         THEN Outcome(PASS, "Within threshold")
         ELSE IF FGt(stats.ci_high, threshold)
         THEN Outcome(REGRESSION, "Bootstrap CI confirms regression")
         ELSE IF FLe(stats.ci_low, threshold)
         THEN Outcome(PASS, "Bootstrap CI rejects regression")
         ELSE Outcome(UNCERTAIN,
                      "Regression signal is inconclusive under bootstrap CI")
    ELSE IF FGt(regression_amount, threshold)
    THEN Outcome(UNCERTAIN, "Insufficient paired cases for bootstrap CI")
    ELSE point

\* the body of "if active_policy.bootstrap_enabled", after the statistics
Reclassify(point, regression_amount, threshold, stats) ==
    IF stats.some
    THEN IF FLe(regression_amount, threshold)
         THEN Outcome(PASS, "Within threshold")
         ELSE IF FGt(stats.ci_low, threshold)
         THEN Outcome(REGRESSION, "Bootstrap CI confirms regression")
         ELSE IF FLe(stats.ci_high, threshold)
         THEN Outcome(PASS, "Bootstrap CI rejects regression")
         ELSE Outcome(UNCERTAIN,
                      "Regression signal is inconclusive under bootstrap CI")
    ELSE IF FGt(regression_amount, threshold)
    THEN Outcome(UNCERTAIN, "Insufficient paired cases for bootstrap CI")
    ELSE point

UnscoredWithDelta(task, baseline_score, candidate_score, threshold, message) ==
    [comparison |->
        TaskComparison(task, baseline_score, candidate_score, threshold,
                       Zero, Zero, NoStats, 0, Outcome(REGRESSION, message)),
     regressions |-> 1,
     uncertain |-> 0]

\* the three branches that end with continue: a TaskComparison without
\* delta, and regressions += 1
Unscored(task, baseline_score, candidate_score, threshold, message) ==
    [comparison |->
        TaskComparison(task, baseline_score, candidate_score, threshold,
                       NoneF, NoneF, NoStats, 0, Outcome(REGRESSION, message)),
     regressions |-> 1,
     uncertain |-> 0]

\* the end of a pass for a task with both scores:
\* if status == "regression": regressions += 1
\* elif status == "uncertain": uncertain += 1
CountedByStatus(comparison) ==
    [comparison |-> comparison,
     regressions |-> IF comparison.status = REGRESSION THEN 1 ELSE 0,
     uncertain |-> IF comparison.status = UNCERTAIN THEN 1 ELSE 0]

\* one pass of the loop over suite.tasks; baseline_task and candidate_task
\* are what the two dict.get calls return
CompareTask(task, p, baseline_task, candidate_task, draws) ==
    LET threshold == Threshold(task, p)
        baseline_score == _extract_score(baseline_task)
        candidate_score == _extract_score(candidate_task)
        delta == FSub(candidate_score, baseline_score)
        regression_amount ==
            RegressionAmount(metric_direction(task.metric), delta)
        pairs == IF bootstrap_enabled(p)
                 THEN _paired_cases(baseline_task[1], candidate_task[1])
                 ELSE <<>>
        stats == IF bootstrap_enabled(p)
                 THEN _bootstrap_regression_stats(
                          task.metric, metric_direction(task.metric),
                          task.positive_label, pairs, threshold,
                          p.bootstrap_resamples, p.confidence_level, draws)
                 ELSE NoStats
        point == PointEstimate(regression_amount, threshold)
    IN  IF baseline_task = <<>>
        THEN Unscored(task, NoneF, candidate_score, threshold,
                      "Task missing in baseline run")
        ELSE IF candidate_task = <<>>
        THEN Unscored(task, baseline_score, NoneF, threshold,
                      "Task missing in candidate run")
        ELSE IF baseline_score = NoneF \/ candidate_score = NoneF
        THEN Unscored(task, baseline_score, candidate_score, threshold,
                      "Missing score in one of the runs")
        ELSE CountedByStatus(
                 TaskComparison(
                     task, baseline_score, candidate_score, threshold, delta,
                     regression_amount, stats, Len(pairs),
                     IF bootstrap_enabled(p)
                     THEN Reclassify(point, regression_amount, threshold,
                                     stats)
                     ELSE point))

PassedIgnoresUncertain(regressions, uncertain, fail_on_uncertain) ==
    regressions = 0

\* regressions == 0 and (uncertain == 0 if fail_on_uncertain else True)
Passed(regressions, uncertain, fail_on_uncertain) ==
    regressions = 0 /\ (IF fail_on_uncertain THEN uncertain = 0 ELSE TRUE)

\* the dict form of the ComparisonReport, from the loop's results
ComparisonReport(s, p, counted) ==
    [suite_name |-> s.name,
     suite_version |-> s.version,
     summary |->
        [tasks_total |-> Len(counted),
         regressions |-> SumOver(counted, "regressions"),
         uncertain |-> SumOver(counted, "uncertain"),
         passed |-> Passed(SumOver(counted, "regressions"),
                           SumOver(counted, "uncertain"),
                           p.fail_on_uncertain)],
     policy |-> p,
     task_comparisons |-> [i \in 1..Len(counted) |-> counted[i].comparison]]

\* draws[i] is what the rng of the i-th task returns, resample by resample
compare_runs(s, baseline, candidate, p, draws) ==
    ComparisonReport(
        s, p,
        [i \in 1..Len(s.tasks) |->
            CompareTask(s.tasks[i], p,
                        Find(_task_map(baseline), s.tasks[i].task_id),
                        Find(_task_map(candidate), s.tasks[i].task_id),
                        draws[i])])

(* ------------------------------ inputs -------------------------------- *)

Digits == <<"1", "2", "3", "4", "5">>
CaseId(j) == <<"c", Digits[j]>>
TaskId(i) == <<"t", Digits[i]>>

Y == <<"y">>
LABEL == <<"l", "a", "b", "e", "l">>

RawCase(j, key, v) == [id |-> CaseId(j), expected |-> [k \in {key} |-> v]]

\* the expected values of a task's n cases: all 1, or 1, 0, 1, ...
ExpectedPatterns(n) ==
    {[j \in 1..n |-> Num(1)], [j \in 1..n |-> Num(j % 2)]}

\* the first task of a raw suite: with its own expected_key or without one
RawTask(metric, keyed, tolerance, values) ==
    LET key == IF keyed THEN LABEL ELSE Y
        cases == [j \in 1..Len(values) |-> RawCase(j, key, values[j])]
        base == [id |-> TaskId(1), metric |-> metric, prediction_key |-> Y,
                 regression_tolerance |-> tolerance, cases |-> cases]
    IN  IF keyed
        THEN [k \in DOMAIN base \cup {"expected_key"} |->
                 IF k = "expected_key" THEN LABEL ELSE base[k]]
        ELSE base

\* a later task of a raw suite: one case, every default taken
PlainTask(i) ==
    [id |-> TaskId(i), metric |-> ACCURACY, prediction_key |-> Y,
     cases |-> <<RawCase(1, Y, Num(1))>>]

RawSuite(name, versioned, first, n) ==
    LET tasks == [i \in 1..n |-> IF i = 1 THEN first ELSE PlainTask(i)]
        base == [name |-> name, tasks |-> tasks]
    IN  IF versioned
        THEN [k \in DOMAIN base \cup {"version"} |->
                 IF k = "version" THEN <<" ", "1">> ELSE base[k]]
        ELSE base

\* the mappings handed to suite_from_mapping
RawSuites ==
    {RawSuite(name, versioned, RawTask(metric, keyed, Zero, values), n) :
        name \in {<<" ", "s">>, <<" ">>},
        versioned \in BOOLEAN,
        metric \in SUPPORTED_METRICS \cup {<<"a", "u", "c">>},
        keyed \in BOOLEAN,
        values \in UNION {ExpectedPatterns(k) : k \in 1..MaxCases},
        n \in 1..MaxTasks}

\* what a predictions file holds for one case: nothing, a mapping without the
\* prediction key, or a bare value
Absent == [mapping |-> FALSE, value |-> <<"absent", 0>>]
Entries ==
    {Absent, [mapping |-> TRUE, value |-> <<>>]}
    \cup {[mapping |-> FALSE, value |-> v] : v \in {Num(0), Num(1), Str(3)}}

\* the predictions of a file: every task holds the same entry for a case id
Predictions(s, entry) ==
    [t \in {s.tasks[i].task_id : i \in 1..Len(s.tasks)} |->
        [c \in {CaseId(j) : j \in {k \in DOMAIN entry : entry[k] # Absent}} |->
            entry[CHOOSE j \in DOMAIN entry : CaseId(j) = c]]]

MostCases(s) ==
    CHOOSE n \in 1..MaxCases + 1 :
        /\ \E i \in 1..Len(s.tasks) : Len(s.tasks[i].cases) = n
        /\ \A i \in 1..Len(s.tasks) : Len(s.tasks[i].cases) <= n

FileAdapters(s) ==
    {FileAdapter(Predictions(s, entry)) : entry \in [1..MostCases(s) -> Entries]}

Adapters(s) ==
    {GoldenAdapter, CustomAdapter(<<" ">>)} \cup FileAdapters(s)

(* ------------------------------ state --------------------------------- *)

\* the suite is loaded; nothing has run
Loaded(data) ==
    /\ SuiteOk(data)
    /\ suite = suite_from_mapping(data)
    /\ adapter = [kind |-> "none"]
    /\ run = [called |-> FALSE]
    /\ payload = [stored |-> FALSE]
    /\ edits = 0
    /\ verdict = [done |-> FALSE]
    /\ baseline_run = [called |-> FALSE]
    /\ candidate_run = [called |-> FALSE]
    /\ policy = [set |-> FALSE]
    /\ report = [made |-> FALSE]
    /\ registry = <<>>
    /\ command = [ran |-> FALSE]
    /\ quantile = [called |-> FALSE]
    /\ promotions = <<>>

Init == \E data \in RawSuites : Loaded(data)

\* run_benchmark(suite, a); the record it returns is stored as its dict form
RunBenchmark(a) ==
    /\ ~run.called
    /\ \E r \in {run_benchmark(suite, a)} :
       /\ run' = [called |-> TRUE, ok |-> r.ok, value |-> r.run]
       /\ payload' = IF r.ok THEN [stored |-> TRUE, value |-> r.run]
                     ELSE payload
    /\ adapter' = a
    /\ UNCHANGED <<suite, edits, verdict, baseline_run, candidate_run,
                   policy, report>>
    /\ UNCHANGED <<registry, command, quantile, promotions>>

\* validate_run_artifact(payload, suite=suite) or, without a suite, suite=None
Validate(with_suite) ==
    /\ payload.stored
    /\ ~verdict.done
    /\ verdict' = [done |-> TRUE, with_suite |-> with_suite,
                   result |-> validate_run_artifact(payload.value, with_suite,
                                                    suite)]
    /\ UNCHANGED <<suite, adapter, run, payload, edits, baseline_run,
                   candidate_run, policy, report>>
    /\ UNCHANGED <<registry, command, quantile, promotions>>

Next ==
    \/ \E a \in Adapters(suite) : RunBenchmark(a)
    \/ \E with_suite \in BOOLEAN : Validate(with_suite)

Spec == Init /\ [][Next]_vars

(* ------------------------------ the runner ---------------------------- *)

\* C2: the dict form of the record run_benchmark returns for a suite that
\* suite_from_mapping accepted, whatever the prediction source, is accepted
\* by validate_run_artifact given the same suite
C2_RunnerOutputValidates ==
    (verdict.done /\ verdict.with_suite) => verdict.result.ok

\* C8: in the record run_benchmark returns, each task result holds one case
\* result per suite case in suite order, a case result has an error exactly
\* when its case failed, a failed case has a null predicted value, and
\* case_failures counts the case results with an error; when no record is
\* returned, a metric raised over pairs of cases that did not fail
C8_CaseFailuresIsolated ==
    /\ (run.called /\ ~run.ok) =>
          \E i \in 1..Len(suite.tasks) :
              /\ suite.tasks[i].metric \in {MAE, RMSE}
              /\ \E j \in 1..Len(suite.tasks[i].cases) :
                    /\ ~CaseFailed(adapter, suite.tasks[i], suite.tasks[i].cases[j])
                    /\ \/ ~IsNumeric(predict(adapter, suite.tasks[i],
                                             suite.tasks[i].cases[j]).output[
                                         suite.tasks[i].prediction_key])
                       \/ ~IsNumeric(Get(suite.tasks[i].cases[j].expected,
                                         suite.tasks[i].expected_key, None))
    /\ (run.called /\ run.ok) =>
          /\ Len(run.value.task_results) = Len(suite.tasks)
          /\ \A i \in 1..Len(suite.tasks) :
                /\ run.value.task_results[i].task_id = suite.tasks[i].task_id
                /\ Len(run.value.task_results[i].case_results)
                       = Len(suite.tasks[i].cases)
                /\ \A j \in 1..Len(suite.tasks[i].cases) :
                      /\ run.value.task_results[i].case_results[j].case_id
                             = suite.tasks[i].cases[j].case_id
                      /\ (run.value.task_results[i].case_results[j].error # None)
                             <=> CaseFailed(adapter, suite.tasks[i],
                                            suite.tasks[i].cases[j])
                      /\ CaseFailed(adapter, suite.tasks[i], suite.tasks[i].cases[j])
                             => run.value.task_results[i].case_results[j].predicted
                                    = None
                /\ run.value.task_results[i].case_failures
                       = Cardinality(
                             {j \in 1..Len(suite.tasks[i].cases) :
                                 run.value.task_results[i].case_results[j].error
                                     # None})

\* a record is returned in which a task has a failed case next to a case that
\* succeeded, and a later task was run as well
C8_SomeCasesFailed ==
    /\ run.called
    /\ run.ok
    /\ Len(run.value.task_results) > 1
    /\ \E j, k \in 1..Len(run.value.task_results[1].case_results) :
          /\ run.value.task_results[1].case_results[j].error # None
          /\ run.value.task_results[1].case_results[k].error = None
    /\ run.value.task_results[1].case_failures = 1

\* C9: with GoldenAdapter, every accepted suite runs with no case failure and
\* every task scores the perfect value of its metric
C9_GoldenIsPerfect ==
    (run.called /\ adapter = GoldenAdapter) =>
        /\ run.ok
        /\ run.value.summary.case_failures = 0
        /\ \A i \in 1..Len(run.value.task_results) :
              run.value.task_results[i].score
                  = IF run.value.task_results[i].metric \in {MAE, RMSE}
                    THEN Zero ELSE One

(* ----------------------- edited artifacts ----------------------------- *)

\* a stored artifact is a JSON file: it can be changed before it is read back
\* and validated.  An edit drops a key from, or adds one to, the record, its
\* summary, a task entry or a case entry
DropKey(d, key) == [k \in DOMAIN d \ {key} |-> d[k]]

AddKey(d, key, value) ==
    [k \in DOMAIN d \cup {key} |-> IF k = key THEN value ELSE d[k]]

\* the objects of a payload that validation can reach
Paths(p) ==
    {Path("run", 0, 0)}
    \cup (IF "summary" \in DOMAIN p THEN {Path("summary", 0, 0)} ELSE {})
    \cup (IF "task_results" \in DOMAIN p
          THEN {Path("task", i, 0) : i \in 1..Len(p["task_results"])}
               \cup UNION {IF "case_results" \in DOMAIN p["task_results"][i]
                           THEN {Path("case", i, j) :
                                   j \in 1..Len(p["task_results"][i]["case_results"])}
                           ELSE {} : i \in 1..Len(p["task_results"])}
          ELSE {})

ObjectAt(p, path) ==
    CASE path.object = "run" -> p
      [] path.object = "summary" -> p["summary"]
      [] path.object = "task" -> p["task_results"][path.task]
      [] path.object = "case" ->
            p["task_results"][path.task]["case_results"][path.case]

ReplaceAt(p, path, object) ==
    CASE path.object = "run" -> object
      [] path.object = "summary" -> [p EXCEPT !["summary"] = object]
      [] path.object = "task" ->
            [p EXCEPT !["task_results"][path.task] = object]
      [] path.object = "case" ->
            [p EXCEPT !["task_results"][path.task]["case_results"][path.case]
                          = object]

\* the payloads one edit away from p
Edited(p) ==
    UNION {{ReplaceAt(p, path, DropKey(ObjectAt(p, path), key)) :
                key \in DOMAIN ObjectAt(p, path)}
           \cup (IF "extra" \in DOMAIN ObjectAt(p, path) THEN {}
                 ELSE {ReplaceAt(p, path,
                                 AddKey(ObjectAt(p, path), "extra", None))})
           : path \in Paths(p)}

EditPayload(edited) ==
    /\ payload.stored
    /\ ~verdict.done
    /\ edits < MaxEdits
    /\ payload' = [stored |-> TRUE, value |-> edited]
    /\ edits' = edits + 1
    /\ UNCHANGED <<suite, adapter, run, verdict, baseline_run, candidate_run,
                   policy, report>>
    /\ UNCHANGED <<registry, command, quantile, promotions>>

\* suites with MaxTasks tasks whose first task has MaxCases cases
SuitesToEdit ==
    {RawSuite(<<"s">>, versioned,
              RawTask(ACCURACY, FALSE, Zero, [j \in 1..MaxCases |-> Num(1)]),
              MaxTasks) : versioned \in BOOLEAN}

InitValidate == \E data \in SuitesToEdit : Loaded(data)

NextValidate ==
    \/ \E a \in {GoldenAdapter, CustomAdapter(<<" ">>)} : RunBenchmark(a)
    \/ /\ payload.stored
       /\ \E edited \in Edited(payload.value) : EditPayload(edited)
    \/ \E with_suite \in BOOLEAN : Validate(with_suite)

SpecValidate == InitValidate /\ [][NextValidate]_vars

\* the key set required of the object at a path
RequiredKeys(path) ==
    CASE path.object = "run" -> _TOP_LEVEL_KEYS
      [] path.object = "summary" -> _SUMMARY_KEYS
      [] path.object = "task" -> _TASK_KEYS
      [] path.object = "case" -> _CASE_KEYS

\* the objects of a payload that do not carry exactly their key set
Offenders(p) ==
    {path \in Paths(p) : DOMAIN ObjectAt(p, path) # RequiredKeys(path)}

\* validation reaches a before b: the record, the summary, then each task
\* entry followed by its case entries
Before(a, b) ==
    \/ a.object = "run" /\ b.object # "run"
    \/ a.object = "summary" /\ b.object \in {"task", "case"}
    \/ a.object \in {"task", "case"} /\ b.object \in {"task", "case"}
       /\ (a.task < b.task \/ (a.task = b.task /\ a.case < b.case))

FirstOffender(p) ==
    CHOOSE a \in Offenders(p) : \A b \in Offenders(p) \ {a} : Before(a, b)

\* a key error names the object at its path, with that object's missing and
\* extra keys
NamesOffender(result, p) ==
    /\ result.kind = "invalid keys"
    /\ result.path \in Offenders(p)
    /\ result.missing = RequiredKeys(result.path) \ DOMAIN ObjectAt(p, result.path)
    /\ result.extra = DOMAIN ObjectAt(p, result.path) \ RequiredKeys(result.path)

Tampered(p) ==
    LET Set(path, key, values) ==
            {ReplaceAt(p, path, AddKey(ObjectAt(p, path), key, v)) :
                v \in values \ {ObjectAt(p, path)[key]}}
        Padded(v) == {v \o <<" ">>}
        tasks == p["task_results"]
        OfTask(i) ==
            LET task == tasks[i]
                cases == task["case_results"]
                OfCase(j) ==
                    Set(Path("case", i, j), "case_id",
                        Padded(cases[j]["case_id"])
                        \cup {CaseId(1), CaseId(Len(cases) + 1)})
                    \cup Set(Path("case", i, j), "error", {None, Str(1)})
            IN  Set(Path("task", i, 0), "task_id",
                    Padded(task["task_id"])
                    \cup {TaskId(1), TaskId(Len(tasks) + 1)})
                \cup Set(Path("task", i, 0), "metric",
                         Padded(task["metric"]) \cup {MAE, ACCURACY})
                \cup Set(Path("task", i, 0), "direction",
                         Padded(task["direction"]) \cup {HIGHER, LOWER})
                \cup UNION {Set(Path("task", i, 0), key,
                                {n \in {task[key] - 1, task[key] + 1} : n >= 0}) :
                               key \in {"cases_total", "case_failures"}}
                \cup Set(Path("task", i, 0), "case_results",
                         {SubSeq(cases, 1, Len(cases) - 1)})
                \cup UNION {OfCase(j) : j \in 1..Len(cases)}
    IN  UNION {Set(Path("run", 0, 0), key,
                   Padded(p[key]) \cup {p[key] \o <<"x">>}) :
                  key \in {"suite_name", "suite_version"}}
        \cup UNION {Set(Path("summary", 0, 0), key, 0..MaxCases + 1) :
                       key \in {"tasks_total", "tasks_with_errors",
                                "cases_total", "case_failures"}}
        \cup UNION {OfTask(i) : i \in 1..Len(tasks)}

\* the record of a suite run with a source that fails on the first case of
\* every task, or on none, comes back with up to MaxEdits values changed and
\* is validated
NextTamper ==
    \/ \E a \in {GoldenAdapter,
                 FileAdapter(Predictions(suite,
                     [j \in 1..MostCases(suite) |->
                         IF j = 1 THEN Absent
                         ELSE [mapping |-> FALSE, value |-> Num(1)]]))} :
          RunBenchmark(a)
    \/ /\ payload.stored
       /\ \E edited \in Tampered(payload.value) : EditPayload(edited)
    \/ \E with_suite \in BOOLEAN : Validate(with_suite)

SpecTamper == InitValidate /\ [][NextTamper]_vars

\* the counters of the summary
SummaryCounters ==
    {"tasks_total", "tasks_with_errors", "cases_total", "case_failures"}

\* the payloads that differ from p in the counter of the summary alone
OtherCounter(p, counter) ==
    {[p EXCEPT !["summary"][counter] = n] :
        n \in (0..MaxCases + 1) \ {p["summary"][counter]}}

\* C11: a payload that differs in exactly one summary counter from a record
\* that validation accepts is rejected, and the error is about that counter
\* of the summary
C11_ChangedCounterNamed ==
    verdict.done =>
        \A counter \in SummaryCounters :
            (\E original \in OtherCounter(payload.value, counter) :
                validate_run_artifact(original, verdict.with_suite, suite).ok)
            => /\ ~verdict.result.ok
               /\ verdict.result.path = Path("summary", 0, 0)
               /\ verdict.result.field = counter

\* the record of a run came back with another cases_total in its summary and
\* was rejected for it
C11_CasesTotalChanged ==
    /\ verdict.done
    /\ edits = 1
    /\ validate_run_artifact(run.value, verdict.with_suite, suite).ok
    /\ payload.value \in OtherCounter(run.value, "cases_total")
    /\ ~verdict.result.ok
    /\ verdict.result.field = "cases_total"

\* the fields among suite_name and suite_version in which a payload is not,
\* character for character, what the suite holds
SuiteMismatches(p, s) ==
    {key \in {"suite_name", "suite_version"} :
        p[key] # (IF key = "suite_name" THEN s.name ELSE s.version)}

\* C12 as stated: with a suite supplied a payload is accepted only if its
\* suite_name and suite_version are exactly the suite's name and version,
\* and is otherwise rejected with an error about a mismatching field
C12_ExactSuiteMatch ==
    (verdict.done /\ verdict.with_suite) =>
        /\ verdict.result.ok => SuiteMismatches(payload.value, suite) = {}
        /\ SuiteMismatches(payload.value, suite) # {} =>
              /\ ~verdict.result.ok
              /\ verdict.result.field \in SuiteMismatches(payload.value, suite)

\* the task entry of a payload aligns with a task of the suite: the same id,
\* metric and case ids, the direction of the metric, the suite's case count
Aligned(run_task, task) ==
    /\ run_task["task_id"] = task.task_id
    /\ run_task["metric"] = task.metric
    /\ run_task["direction"] = metric_direction(task.metric)
    /\ {run_task["case_results"][j]["case_id"] :
           j \in 1..Len(run_task["case_results"])}
         = {task.cases[j].case_id : j \in 1..Len(task.cases)}
    /\ run_task["cases_total"] = Len(task.cases)

\* C13 as stated: with a suite supplied, an accepted payload holds the task
\* ids of the suite and no other, and each task entry has the metric, the
\* canonical direction, the case ids and the case count of its suite task
C13_AcceptedAlignsWithSuite ==
    (verdict.done /\ verdict.with_suite /\ verdict.result.ok) =>
        /\ \A i \in 1..Len(payload.value["task_results"]) :
              \E k \in 1..Len(suite.tasks) :
                  Aligned(payload.value["task_results"][i], suite.tasks[k])
        /\ \A k \in 1..Len(suite.tasks) :
              \E i \in 1..Len(payload.value["task_results"]) :
                  Aligned(payload.value["task_results"][i], suite.tasks[k])

\* C14: in an accepted payload, with a suite supplied or without, every
\* task entry has case_failures <= cases_total, as many case entries as
\* cases_total says, case ids that differ pairwise, and as many case entries
\* with an error as case_failures says
C14_TaskEntriesConsistent ==
    (verdict.done /\ verdict.result.ok) =>
        \A i \in 1..Len(payload.value["task_results"]) :
            LET task == payload.value["task_results"][i]
                cases == task["case_results"]
            IN  /\ task["case_failures"] <= task["cases_total"]
                /\ Len(cases) = task["cases_total"]
                /\ \A j, k \in 1..Len(cases) :
                      j # k => cases[j]["case_id"] # cases[k]["case_id"]
                /\ Cardinality({j \in 1..Len(cases) : cases[j]["error"] # None})
                     = task["case_failures"]

\* a changed record with a failed case among the cases of a task was
\* accepted
C14_AcceptedWithFailure ==
    /\ verdict.done
    /\ verdict.result.ok
    /\ edits > 0
    /\ \E i \in 1..Len(payload.value["task_results"]) :
          /\ payload.value["task_results"][i]["case_failures"] = 1
          /\ payload.value["task_results"][i]["cases_total"] = MaxCases

(* ----------------------- comparing two records ------------------------ *)

\* the suites compared: MaxTasks tasks, the first with MaxCases cases that
\* expect 1, 0, 1, ...
SuitesToCompare ==
    {RawSuite(<<"s">>, FALSE,
              RawTask(metric, FALSE, Zero, [j \in 1..MaxCases |-> Num(j % 2)]),
              MaxTasks) : metric \in SUPPORTED_METRICS}

\* the first n tasks of a suite: the suite as it was before tasks were added
Prefix(s, n) == [s EXCEPT !.tasks = SubSeq(s.tasks, 1, n)]

Right(j) == [mapping |-> FALSE, value |-> Num(j % 2)]
Wrong(j) == [mapping |-> FALSE, value |-> Num(1 - (j % 2))]

\* what the predictions files hold for the cases 1..n: every case right,
\* every case wrong, the first or the last wrong, nothing, the first only
EntriesToCompare(n) ==
    {[j \in 1..n |-> Right(j)],
     [j \in 1..n |-> Wrong(j)],
     [j \in 1..n |-> IF j = 1 THEN Wrong(j) ELSE Right(j)],
     [j \in 1..n |-> IF j = n THEN Wrong(j) ELSE Right(j)],
     [j \in 1..n |-> Absent],
     [j \in 1..n |-> IF j = 1 THEN Right(j) ELSE Absent]}

AdaptersToCompare(s) ==
    {FileAdapter(Predictions(s, entry)) : entry \in EntriesToCompare(MostCases(s))}

Policies ==
    {StatisticalPolicy(min_effect_size, bootstrap_resamples, <<19, 20>>,
                       bootstrap_seed, fail_on_uncertain) :
        min_effect_size \in {<<-1, 2>>, Zero, <<1, 2>>},
        bootstrap_resamples \in {0, MaxResamples},
        bootstrap_seed \in {None, Num(0)},
        fail_on_uncertain \in BOOLEAN}

\* what [rng.randrange(n_cases) for _ in range(n_cases)] can return, plus
\* one: the first case n_cases times, the last n_cases times, or each once
IndexLists(n_cases) ==
    {[k \in 1..n_cases |-> 1], [k \in 1..n_cases |-> n_cases],
     [k \in 1..n_cases |-> k]}

\* random.Random(seed): with no seed the generator starts from system
\* entropy and any draws can follow; with a seed the draws are a fixed
\* function of it
Random(seed, n_cases, resamples) ==
    IF seed = None
    THEN [1..resamples -> IndexLists(n_cases)]
    ELSE {[r \in 1..resamples |->
              [k \in 1..n_cases |-> (((seed[2] + r) * k) % n_cases) + 1]]}

\* the draws the rng of one task can make: none unless it resamples
TaskDraws(task, task_index, p, baseline_task, candidate_task) ==
    IF \/ ~bootstrap_enabled(p)
       \/ baseline_task = <<>>
       \/ candidate_task = <<>>
    THEN {<<>>}
    ELSE IF Len(_paired_cases(baseline_task[1], candidate_task[1])) < 2
    THEN {<<>>}
    ELSE Random(_seed_for_task(p.bootstrap_seed, task_index),
                Len(_paired_cases(baseline_task[1], candidate_task[1])),
                p.bootstrap_resamples)

RECURSIVE DrawsFrom(_, _, _, _, _)
DrawsFrom(s, baseline, candidate, p, i) ==
    IF i > Len(s.tasks) THEN {<<>>}
    ELSE {<<first>> \o rest :
             first \in TaskDraws(s.tasks[i], i - 1, p,
                                 Find(_task_map(baseline), s.tasks[i].task_id),
                                 Find(_task_map(candidate), s.tasks[i].task_id)),
             rest \in DrawsFrom(s, baseline, candidate, p, i + 1)}

\* the baseline record: run_benchmark on the suite or on its earlier form
RunBaseline(a, n) ==
    /\ ~baseline_run.called
    /\ \E r \in {run_benchmark(Prefix(suite, n), a)} :
       /\ r.ok
       /\ baseline_run' = [called |-> TRUE, ok |-> r.ok, value |-> r.run]
    /\ UNCHANGED <<suite, adapter, run, payload, edits, verdict,
                   candidate_run, policy, report>>
    /\ UNCHANGED <<registry, command, quantile, promotions>>

RunCandidate(a, n) ==
    /\ ~candidate_run.called
    /\ \E r \in {run_benchmark(Prefix(suite, n), a)} :
       /\ r.ok
       /\ candidate_run' = [called |-> TRUE, ok |-> r.ok, value |-> r.run]
    /\ UNCHANGED <<suite, adapter, run, payload, edits, verdict,
                   baseline_run, policy, report>>
    /\ UNCHANGED <<registry, command, quantile, promotions>>

\* compare_runs(suite, baseline, candidate, policy=p)
Compare(p, draws) ==
    /\ policy' = [set |-> TRUE, value |-> p]
    /\ report' = [made |-> TRUE,
                  value |-> compare_runs(suite, baseline_run.value,
                                         candidate_run.value, p, draws)]
    /\ UNCHANGED <<suite, adapter, run, payload, edits, verdict,
                   baseline_run, candidate_run>>
    /\ UNCHANGED <<registry, command, quantile, promotions>>

InitCompare == \E data \in SuitesToCompare : Loaded(data)

\* the records compared are of the suite or of its form one task shorter
NextCompare ==
    \/ \E a \in AdaptersToCompare(suite),
          n \in {n \in {Len(suite.tasks) - 1, Len(suite.tasks)} : n >= 1} :
          RunBaseline(a, n)
    \/ \E a \in AdaptersToCompare(suite),
          n \in {n \in {Len(suite.tasks) - 1, Len(suite.tasks)} : n >= 1} :
          RunCandidate(a, n)
    \/ /\ baseline_run.called
       /\ candidate_run.called
       /\ ~report.made
       /\ \E p \in Policies :
             \E draws \in DrawsFrom(suite, baseline_run.value,
                                    candidate_run.value, p, 1) :
                 Compare(p, draws)

SpecCompare == InitCompare /\ [][NextCompare]_vars

\* compare_runs(earlier, baseline, candidate, policy=p) where earlier is the
\* suite or its form one task shorter, so that the records can hold a task
\* the suite compared does not; the report is kept with the suite it is of
\* and the draws its rngs made
CompareEarlier(n, p, draws) ==
    /\ policy' = [set |-> TRUE, value |-> p]
    /\ report' = [made |-> TRUE, of |-> Prefix(suite, n), draws |-> draws,
                  value |-> compare_runs(Prefix(suite, n), baseline_run.value,
                                         candidate_run.value, p, draws)]
    /\ UNCHANGED <<suite, adapter, run, payload, edits, verdict,
                   baseline_run, candidate_run>>
    /\ UNCHANGED <<registry, command, quantile, promotions>>

\* the records are of the whole suite
NextEarlier ==
    \/ \E a \in AdaptersToCompare(suite) : RunBaseline(a, Len(suite.tasks))
    \/ \E a \in AdaptersToCompare(suite) : RunCandidate(a, Len(suite.tasks))
    \/ /\ baseline_run.called
       /\ candidate_run.called
       /\ ~report.made
       /\ \E n \in {n \in {Len(suite.tasks) - 1, Len(suite.tasks)} : n >= 1},
             p \in Policies :
             \E draws \in DrawsFrom(Prefix(suite, n), baseline_run.value,
                                    candidate_run.value, p, 1) :
                 CompareEarlier(n, p, draws)

SpecEarlier == InitCompare /\ [][NextEarlier]_vars

Elements(seq) == {seq[k] : k \in 1..Len(seq)}

\* the entries of a record for a task id
EntryIndexes(record, task_id) ==
    {i \in 1..Len(record.task_results) :
        record.task_results[i].task_id = task_id}

Holds(record, task_id) == EntryIndexes(record, task_id) # {}

EntryOf(record, task_id) ==
    record.task_results[CHOOSE i \in EntryIndexes(record, task_id) : TRUE]

\* the i-th suite task is in both records with a score
BothScored(i) ==
    /\ Holds(baseline_run.value, suite.tasks[i].task_id)
    /\ Holds(candidate_run.value, suite.tasks[i].task_id)
    /\ EntryOf(baseline_run.value, suite.tasks[i].task_id).score # NoneF
    /\ EntryOf(candidate_run.value, suite.tasks[i].task_id).score # NoneF

\* max(task tolerance, policy min_effect_size) for the i-th suite task
MaxOfToleranceAndEffect(i) ==
    IF FLt(suite.tasks[i].regression_tolerance, policy.value.min_effect_size)
    THEN policy.value.min_effect_size
    ELSE suite.tasks[i].regression_tolerance

\* candidate - baseline for mae and rmse, baseline - candidate otherwise
AmountFromScores(i) ==
    IF suite.tasks[i].metric \in {MAE, RMSE}
    THEN FSub(EntryOf(candidate_run.value, suite.tasks[i].task_id).score,
              EntryOf(baseline_run.value, suite.tasks[i].task_id).score)
    ELSE FSub(EntryOf(baseline_run.value, suite.tasks[i].task_id).score,
              EntryOf(candidate_run.value, suite.tasks[i].task_id).score)

\* the cases of the i-th suite task that are in both records with no error
\* and with expected and predicted values on both sides
PairedCaseIds(i) ==
    {suite.tasks[i].cases[j].case_id : j \in 1..Len(suite.tasks[i].cases)}
    \cap {b.case_id :
            b \in {x \in Elements(EntryOf(baseline_run.value,
                                        suite.tasks[i].task_id).case_results) :
                      x.error = None /\ x.expected # None /\ x.predicted # None}}
    \cap {c.case_id :
            c \in {x \in Elements(EntryOf(candidate_run.value,
                                        suite.tasks[i].task_id).case_results) :
                      x.error = None /\ x.expected # None /\ x.predicted # None}}

Comparison(i) == report.value.task_comparisons[i]

StatusCount(status) ==
    Cardinality({i \in 1..Len(report.value.task_comparisons) :
                    Comparison(i).status = status})

\* the baseline and the candidate are one record, run on the whole suite
SelfCompare ==
    /\ report.made
    /\ baseline_run.value = candidate_run.value
    /\ Len(baseline_run.value.task_results) = Len(suite.tasks)
    /\ FLe(Zero, policy.value.min_effect_size)

\* C1 as stated: a record compared with itself under min_effect_size >= 0
\* passes with no regression, null scores included
C1_SelfCompareAlwaysPasses ==
    SelfCompare =>
        /\ report.value.summary.passed
        /\ report.value.summary.regressions = 0

\* C1: a record in which every task has a score, compared with itself under
\* a policy with min_effect_size >= 0, bootstrap or not, passes with no
\* regression
C1_ScoredSelfComparePasses ==
    (/\ SelfCompare
     /\ \A i \in 1..Len(suite.tasks) : BothScored(i)) =>
        /\ report.value.summary.passed
        /\ report.value.summary.regressions = 0
        /\ \A i \in 1..Len(suite.tasks) : Comparison(i).status = PASS

\* a record with no failed case, whose first task scores unlike its second,
\* was compared with itself, and its first task was resampled
C1_SelfCompareResampled ==
    /\ SelfCompare
    /\ \A i \in 1..Len(suite.tasks) : BothScored(i)
    /\ Comparison(1).ci_low # NoneF
    /\ baseline_run.value.summary.tasks_with_errors = 0
    /\ Comparison(1).baseline_score # Comparison(2).baseline_score

\* C3: a suite task absent from either record, or with a null score on
\* either side, is a regression that summary.regressions counts, with
\* threshold = max(tolerance, min_effect_size) and with delta,
\* regression_amount, ci_low, ci_high and p_regression null; the report has
\* an entry for every suite task
C3_MissingIsRegression ==
    report.made =>
        /\ Len(report.value.task_comparisons) = Len(suite.tasks)
        /\ \A i \in 1..Len(suite.tasks) :
              ~BothScored(i) =>
                  /\ Comparison(i).task_id = suite.tasks[i].task_id
                  /\ Comparison(i).status = REGRESSION
                  /\ Comparison(i).threshold = MaxOfToleranceAndEffect(i)
                  /\ Comparison(i).delta = NoneF
                  /\ Comparison(i).regression_amount = NoneF
                  /\ Comparison(i).ci_low = NoneF
                  /\ Comparison(i).ci_high = NoneF
                  /\ Comparison(i).p_regression = NoneF
        /\ report.value.summary.regressions
               >= Cardinality({i \in 1..Len(suite.tasks) : ~BothScored(i)})

\* the last task is absent from the baseline and the first has no score in
\* the candidate, under a min_effect_size above the tolerance
C3_AbsentAndUnscored ==
    /\ report.made
    /\ ~Holds(baseline_run.value, suite.tasks[Len(suite.tasks)].task_id)
    /\ Holds(candidate_run.value, suite.tasks[Len(suite.tasks)].task_id)
    /\ Holds(candidate_run.value, suite.tasks[1].task_id)
    /\ EntryOf(candidate_run.value, suite.tasks[1].task_id).score = NoneF
    /\ EntryOf(baseline_run.value, suite.tasks[1].task_id).score # NoneF
    /\ FLt(suite.tasks[1].regression_tolerance, policy.value.min_effect_size)
    /\ report.value.summary.regressions = Len(suite.tasks)

\* C4: with bootstrap_resamples = 0 and both scores present, the status is
\* regression exactly when the regression amount (candidate - baseline for
\* mae and rmse, baseline - candidate for accuracy, exact_match and f1)
\* exceeds max(tolerance, min_effect_size), and pass otherwise
C4_PointEstimate ==
    (report.made /\ policy.value.bootstrap_resamples = 0) =>
        \A i \in 1..Len(suite.tasks) :
            BothScored(i) =>
                /\ Comparison(i).regression_amount = AmountFromScores(i)
                /\ Comparison(i).threshold = MaxOfToleranceAndEffect(i)
                /\ Comparison(i).status
                       = IF FGt(AmountFromScores(i), MaxOfToleranceAndEffect(i))
                         THEN REGRESSION ELSE PASS

\* without bootstrap, a task of a higher-is-better metric regressed by less
\* than the whole scale while another passed
C4_RegressedAndPassed ==
    /\ report.made
    /\ policy.value.bootstrap_resamples = 0
    /\ BothScored(1)
    /\ BothScored(2)
    /\ suite.tasks[1].metric = F1
    /\ Comparison(1).status = REGRESSION
    /\ FLt(AmountFromScores(1), One)
    /\ Comparison(2).status = PASS

\* the i-th suite task has both scores and the policy asks for resamples
Bootstrapping(i) ==
    /\ report.made
    /\ policy.value.bootstrap_resamples > 0
    /\ BothScored(i)

\* C5: with bootstrap enabled and two paired cases or more, the CI bounds
\* are there and the status is pass if the regression amount is within the
\* threshold, else regression if ci_low > threshold, else pass if
\* ci_high <= threshold, else uncertain
C5_Reclassified ==
    \A i \in 1..Len(suite.tasks) :
        (Bootstrapping(i) /\ Cardinality(PairedCaseIds(i)) >= 2) =>
            /\ Comparison(i).ci_low # NoneF
            /\ Comparison(i).ci_high # NoneF
            /\ Comparison(i).status
                 = IF FLe(AmountFromScores(i), MaxOfToleranceAndEffect(i))
                   THEN PASS
                   ELSE IF FGt(Comparison(i).ci_low, MaxOfToleranceAndEffect(i))
                   THEN REGRESSION
                   ELSE IF FLe(Comparison(i).ci_high, MaxOfToleranceAndEffect(i))
                   THEN PASS
                   ELSE UNCERTAIN

\* a resampled task with an interval that straddles the threshold
C5_Inconclusive ==
    /\ Bootstrapping(1)
    /\ Cardinality(PairedCaseIds(1)) >= 2
    /\ Comparison(1).status = UNCERTAIN
    /\ FLe(Comparison(1).ci_low, Comparison(1).threshold)
    /\ FGt(Comparison(1).ci_high, Comparison(1).threshold)

\* C6: with bootstrap enabled and fewer than two paired cases, the CI bounds
\* and p_regression are null, a task within the threshold passes, and a task
\* beyond it is uncertain; summary.uncertain counts the uncertain tasks and
\* summary.regressions the regressions
C6_TooFewPairs ==
    /\ \A i \in 1..Len(suite.tasks) :
          (Bootstrapping(i) /\ Cardinality(PairedCaseIds(i)) < 2) =>
              /\ Comparison(i).ci_low = NoneF
              /\ Comparison(i).ci_high = NoneF
              /\ Comparison(i).p_regression = NoneF
              /\ Comparison(i).status
                   = IF FGt(AmountFromScores(i), MaxOfToleranceAndEffect(i))
                     THEN UNCERTAIN ELSE PASS
    /\ (report.made /\ policy.value.bootstrap_resamples > 0) =>
          /\ report.value.summary.uncertain
               >= Cardinality({i \in 1..Len(suite.tasks) :
                                 /\ BothScored(i)
                                 /\ Cardinality(PairedCaseIds(i)) < 2
                                 /\ FGt(AmountFromScores(i),
                                        MaxOfToleranceAndEffect(i))})
          /\ report.value.summary.regressions
               <= Cardinality({i \in 1..Len(suite.tasks) :
                                 ~BothScored(i)
                                 \/ Cardinality(PairedCaseIds(i)) >= 2})

\* a task with one paired case got worse and is the report's one uncertain
\* task
C6_OnePairWorse ==
    /\ Bootstrapping(Len(suite.tasks))
    /\ Cardinality(PairedCaseIds(Len(suite.tasks))) = 1
    /\ FGt(AmountFromScores(Len(suite.tasks)),
           MaxOfToleranceAndEffect(Len(suite.tasks)))
    /\ Comparison(Len(suite.tasks)).status = UNCERTAIN
    /\ report.value.summary.uncertain = 1
    /\ report.value.summary.regressions = 0

\* C7: summary.regressions and summary.uncertain are the numbers of task
\* comparisons with status regression and uncertain, and summary.passed
\* holds exactly when there is no regression and, under fail_on_uncertain,
\* no uncertain task
C7_SummaryCounts ==
    report.made =>
        /\ report.value.summary.regressions = StatusCount(REGRESSION)
        /\ report.value.summary.uncertain = StatusCount(UNCERTAIN)
        /\ report.value.summary.passed
             <=> /\ StatusCount(REGRESSION) = 0
                 /\ ~policy.value.fail_on_uncertain \/ StatusCount(UNCERTAIN) = 0

\* a report without regressions fails on its uncertain task
C7_FailedOnUncertain ==
    /\ report.made
    /\ policy.value.fail_on_uncertain
    /\ StatusCount(REGRESSION) = 0
    /\ StatusCount(UNCERTAIN) > 0
    /\ ~report.value.summary.passed

\* what a report says of each task that resampling decides
Verdicts(r) ==
    [i \in 1..Len(r.task_comparisons) |->
        <<r.task_comparisons[i].ci_low, r.task_comparisons[i].ci_high,
          r.task_comparisons[i].p_regression, r.task_comparisons[i].status>>]

C16_PairedCasesOnlyWhenResampled ==
    report.made =>
        \A i \in 1..Len(suite.tasks) :
            Comparison(i).paired_cases
                = IF Bootstrapping(i) /\ Cardinality(PairedCaseIds(i)) >= 2
                  THEN Cardinality(PairedCaseIds(i))
                  ELSE 0

\* a record without the task entries whose id is not a task id of s
WithoutOthers(r, s) ==
    [r EXCEPT !["task_results"] =
        SelectSeq(@, LAMBDA entry :
                        \E k \in 1..Len(s.tasks) :
                            entry["task_id"] = s.tasks[k].task_id)]

\* C17: the report holds one comparison per task of the suite compared, in
\* the order of the suite, and tasks_total is their number; it is the report
\* of the same records without the task entries that are not of the suite
C17_OnePerSuiteTask ==
    report.made =>
        /\ Len(report.value.task_comparisons) = Len(report.of.tasks)
        /\ report.value.summary.tasks_total = Len(report.of.tasks)
        /\ \A i \in 1..Len(report.of.tasks) :
              Comparison(i).task_id = report.of.tasks[i].task_id
        /\ report.value
             = compare_runs(report.of,
                            WithoutOthers(baseline_run.value, report.of),
                            WithoutOthers(candidate_run.value, report.of),
                            policy.value, report.draws)

\* both records hold a task that the suite compared does not, and the
\* candidate's prediction for it was wrong
C17_OtherTaskInBoth ==
    /\ report.made
    /\ Len(report.of.tasks) < Len(baseline_run.value.task_results)
    /\ Len(report.of.tasks) < Len(candidate_run.value.task_results)
    /\ candidate_run.value.task_results[Len(suite.tasks)].score
         # baseline_run.value.task_results[Len(suite.tasks)].score
    /\ report.value.summary.tasks_total = Len(report.of.tasks)

(* ------------------------------ command line -------------------------- *)

\* float(args.min_effect_size), int(args.bootstrap_resamples) and
\* float(args.confidence_level) are checked; a ValueError is ok = FALSE
_policy_from_args(args) ==
    IF FLt(args.min_effect_size, Zero) THEN [ok |-> FALSE]
    ELSE IF args.bootstrap_resamples < 0 THEN [ok |-> FALSE]
    ELSE IF FLe(args.confidence_level, Zero) \/ FLe(One, args.confidence_level)
    THEN [ok |-> FALSE]
    ELSE [ok |-> TRUE,
          value |-> StatisticalPolicy(args.min_effect_size, args.bootstrap_resamples,
                                      args.confidence_level, args.bootstrap_seed,
                                      args.fail_on_uncertain)]

_comparison_failed_on_regressions_only(compare_payload, fail_on_uncertain) ==
    compare_payload.summary.regressions > 0

_comparison_never_failed(compare_payload, fail_on_uncertain) == FALSE

_comparison_failed(compare_payload, fail_on_uncertain) ==
    IF compare_payload.summary.regressions > 0 THEN TRUE
    ELSE IF fail_on_uncertain /\ compare_payload.summary.uncertain > 0 THEN TRUE
    ELSE FALSE

\* the registry holds, by suite name and then by baseline name, the current
\* entry and the history; the current entry of a name, or <<>> for None
get_baseline_entry(reg, suite_name, baseline_name) ==
    IF suite_name \notin DOMAIN reg THEN <<>>
    ELSE IF baseline_name \notin DOMAIN reg[suite_name] THEN <<>>
    ELSE <<reg[suite_name][baseline_name].current>>

promote_baseline_forgets_history(reg, suite_name, suite_version, baseline_name, run_payload, compare_summary) ==
    LET current == [suite_name |-> suite_name,
                    suite_version |-> suite_version,
                    baseline_name |-> baseline_name,
                    run_path |-> run_payload,
                    run_id |-> run_payload["run_id"],
                    summary |-> run_payload["summary"],
                    compare_summary |-> compare_summary]
    IN  AddKey(reg, suite_name,
               AddKey(IF suite_name \in DOMAIN reg THEN reg[suite_name] ELSE <<>>,
                      baseline_name,
                      [current |-> current, history |-> <<current>>]))

\* the candidate file is copied into the store and run_path names the copy:
\* run_path is modelled by what the copy holds; compare_summary is <<>> for
\* None; updated_at, notes and provenance are left out
promote_baseline(reg, suite_name, suite_version, baseline_name, run_payload, compare_summary) ==
    LET suite_entries == IF suite_name \in DOMAIN reg THEN reg[suite_name] ELSE <<>>
        history == IF baseline_name \in DOMAIN suite_entries
                   THEN suite_entries[baseline_name].history ELSE <<>>
        current == [suite_name |-> suite_name,
                    suite_version |-> suite_version,
                    baseline_name |-> baseline_name,
                    run_path |-> run_payload,
                    run_id |-> run_payload["run_id"],
                    summary |-> run_payload["summary"],
                    compare_summary |-> compare_summary]
    IN  AddKey(reg, suite_name,
               AddKey(suite_entries, baseline_name,
                      [current |-> current, history |-> Append(history, current)]))

main_returns_handler_value(result) == IF result.raised THEN 1 ELSE result.value

\* main: the handler's return value, or 2 when the handler raised
main(result) == IF result.raised THEN 2 ELSE result.value

\* the compare command on the contents of the baseline file (<<>> when
\* _resolve_baseline_arg finds no entry in the registry) and of the
\* candidate file; output is what write_json wrote, <<>> if it was not called
_cmd_compare(s, baseline, candidate, args, draws) ==
    LET raised == [raised |-> TRUE, value |-> 0, output |-> <<>>]
        policy_of_args == _policy_from_args(args)
    IN  IF baseline = <<>> THEN raised
        ELSE IF ~validate_run_artifact(baseline[1], TRUE, s).ok THEN raised
        ELSE IF ~validate_run_artifact(candidate, TRUE, s).ok THEN raised
        ELSE IF ~policy_of_args.ok THEN raised
        ELSE LET comparison == compare_runs(s, baseline[1], candidate,
                                            policy_of_args.value, draws)
             IN  [raised |-> FALSE,
                  value |-> IF /\ ~args.no_fail_on_regression
                               /\ _comparison_failed(comparison, args.fail_on_uncertain)
                            THEN 1 ELSE 0,
                  output |-> <<comparison>>]

\* the baseline promote command; registry is what save_registry wrote, or
\* the registry as it was when the command raised before saving
_cmd_baseline_promote(s, reg, candidate, args, draws) ==
    LET raised == [raised |-> TRUE, value |-> 0, registry |-> reg, compare |-> <<>>]
        existing_entry == get_baseline_entry(reg, s.name, args.baseline_name)
        promoted(compare_payload) ==
            [raised |-> FALSE, value |-> 0, compare |-> compare_payload,
             registry |-> promote_baseline(
                 reg, s.name, s.version, args.baseline_name, candidate,
                 IF compare_payload = <<>> THEN <<>>
                 ELSE <<compare_payload[1].summary>>)]
        policy_of_args == _policy_from_args(args)
    IN  IF ~validate_run_artifact(candidate, TRUE, s).ok THEN raised
        ELSE IF existing_entry = <<>> THEN promoted(<<>>)
        ELSE IF ~validate_run_artifact(existing_entry[1].run_path, TRUE, s).ok THEN raised
        ELSE IF ~policy_of_args.ok THEN raised
        ELSE LET compare_payload == compare_runs(s, existing_entry[1].run_path, candidate,
                                                 policy_of_args.value, draws)
             IN  IF /\ _comparison_failed(compare_payload, args.fail_on_uncertain)
                    /\ ~args.allow_regression
                 THEN raised
                 ELSE promoted(<<compare_payload>>)

\* most promotions into the registry
MaxPromotions == 2

\* one of the files is overwritten by hand with {"run_id": "bad"}
Overwrite(file) ==
    /\ ~command.ran
    /\ \/ /\ file = "baseline"
          /\ baseline_run.called
          /\ "summary" \in DOMAIN baseline_run.value
          /\ candidate_run.called => "summary" \in DOMAIN candidate_run.value
          /\ baseline_run' = [baseline_run EXCEPT
                                 !.value = [k \in {"run_id"} |-> <<"b", "a", "d">>]]
          /\ UNCHANGED candidate_run
       \/ /\ file = "candidate"
          /\ candidate_run.called
          /\ "summary" \in DOMAIN candidate_run.value
          /\ baseline_run.called => "summary" \in DOMAIN baseline_run.value
          /\ candidate_run' = [candidate_run EXCEPT
                                  !.value = [k \in {"run_id"} |-> <<"b", "a", "d">>]]
          /\ UNCHANGED baseline_run
    /\ UNCHANGED <<suite, adapter, run, payload, edits, verdict, policy, report>>
    /\ UNCHANGED <<registry, command, quantile, promotions>>

\* main(["compare", ...]): the baseline is the baseline file, or with
\* --registry and --baseline-name the copy the registry names
CmdCompare(args) ==
    /\ baseline_run.called
    /\ candidate_run.called
    /\ \E baseline \in {IF args.baseline = "registry"
                        THEN IF get_baseline_entry(registry, suite.name,
                                                   args.baseline_name) = <<>>
                             THEN <<>>
                             ELSE <<get_baseline_entry(registry, suite.name,
                                        args.baseline_name)[1].run_path>>
                        ELSE <<baseline_run.value>>} :
       \E draws \in IF \/ baseline = <<>>
                       \/ ~validate_run_artifact(baseline[1], TRUE, suite).ok
                       \/ ~validate_run_artifact(candidate_run.value, TRUE, suite).ok
                       \/ ~_policy_from_args(args).ok
                    THEN {<<>>}
                    ELSE DrawsFrom(suite, baseline[1], candidate_run.value,
                                   _policy_from_args(args).value, 1) :
          \E result \in {_cmd_compare(suite, baseline, candidate_run.value, args, draws)} :
             /\ command' = [ran |-> TRUE, name |-> "compare",
                            args |-> args, draws |-> draws,
                            result |-> result,
                            exit_code |-> main(result)]
             /\ report' = IF result.output = <<>> THEN report
                          ELSE [made |-> TRUE, value |-> result.output[1]]
    /\ UNCHANGED <<suite, adapter, run, payload, edits, verdict, baseline_run,
                   candidate_run, policy, registry, quantile, promotions>>

\* main(["baseline", "promote", ...]) with --candidate naming either file
CmdBaselinePromote(args) ==
    /\ baseline_run.called
    /\ candidate_run.called
    /\ \E candidate \in {IF args.candidate = "baseline" THEN baseline_run.value
                         ELSE candidate_run.value} :
       \E draws \in IF \/ get_baseline_entry(registry, suite.name,
                                             args.baseline_name) = <<>>
                       \/ ~validate_run_artifact(candidate, TRUE, suite).ok
                       \/ ~_policy_from_args(args).ok
                    THEN {<<>>}
                    ELSE DrawsFrom(suite,
                                   get_baseline_entry(registry, suite.name,
                                       args.baseline_name)[1].run_path,
                                   candidate, _policy_from_args(args).value, 1) :
          \E result \in {_cmd_baseline_promote(suite, registry, candidate, args, draws)} :
             /\ command' = [ran |-> TRUE, name |-> "promote",
                            args |-> args, draws |-> draws,
                            result |-> [result EXCEPT !.registry = <<>>],
                            exit_code |-> main(result)]
             /\ registry' = result.registry
    /\ UNCHANGED <<suite, adapter, run, payload, edits, verdict, baseline_run,
                   candidate_run, policy, report, quantile, promotions>>

\* the options of a command: the policy options are the defaults, resampling
\* asked for with --bootstrap-seed 0, or a negative --min-effect-size
ArgsOf(name) ==
    {[no_fail_on_regression |-> flag /\ name = "compare",
      allow_regression |-> flag /\ name = "promote",
      fail_on_uncertain |-> fail_on_uncertain,
      min_effect_size |-> options[1],
      bootstrap_resamples |-> options[2],
      confidence_level |-> <<19, 20>>,
      bootstrap_seed |-> options[3],
      baseline |-> IF name = "compare" THEN file ELSE "registry",
      candidate |-> IF name = "promote" THEN file ELSE "candidate",
      baseline_name |-> "stable"] :
        flag \in BOOLEAN, fail_on_uncertain \in BOOLEAN,
        options \in {<<Zero, 0, None>>, <<Zero, MaxResamples, Num(0)>>,
                     <<<<-1, 2>>, 0, None>>},
        file \in IF name = "compare" THEN {"baseline", "registry"}
                 ELSE {"baseline", "candidate"}}

\* the suites of the command line runs: lower is better, higher is better
InitCli ==
    \E data \in {RawSuite(<<"s">>, FALSE,
                          RawTask(metric, FALSE, Zero, [j \in 1..MaxCases |-> Num(j % 2)]),
                          MaxTasks) : metric \in {MAE, ACCURACY}} : Loaded(data)

\* the baseline file is written by a run that predicts every case right and
\* the candidate file by a run that may not; either is perhaps overwritten;
\* then commands run until a comparison report is written
NextCli ==
    \/ RunBaseline(FileAdapter(Predictions(suite, [j \in 1..MostCases(suite) |-> Right(j)])),
                   Len(suite.tasks))
    \/ \E entry \in {[j \in 1..MostCases(suite) |-> Right(j)],
                     [j \in 1..MostCases(suite) |-> IF j = 1 THEN Wrong(j) ELSE Right(j)],
                     [j \in 1..MostCases(suite) |-> IF j = 1 THEN Wrong(j) ELSE Absent]} :
          RunCandidate(FileAdapter(Predictions(suite, entry)), Len(suite.tasks))
    \/ \E file \in {"baseline", "candidate"} : Overwrite(file)
    \/ /\ ~report.made
       /\ \E args \in ArgsOf("compare") : CmdCompare(args)
    \/ /\ ~report.made
       /\ get_baseline_entry(registry, suite.name, "stable") # <<>>
             => Len(registry[suite.name]["stable"].history) < MaxPromotions
       /\ \E args \in ArgsOf("promote") : CmdBaselinePromote(args)

SpecCli == InitCli /\ [][NextCli]_vars

(* ------------------------------ claims: command line ------------------ *)

\* what the compare command that ran read as its baseline, <<>> if the
\* registry names none
BaselineRead ==
    IF command.args.baseline = "registry"
    THEN IF get_baseline_entry(registry, suite.name, command.args.baseline_name) = <<>>
         THEN <<>>
         ELSE <<get_baseline_entry(registry, suite.name,
                                   command.args.baseline_name)[1].run_path>>
    ELSE <<baseline_run.value>>

\* the compare command ran on two artifacts that pass validation
ComparedValid ==
    /\ command.ran
    /\ command.name = "compare"
    /\ BaselineRead # <<>>
    /\ validate_run_artifact(BaselineRead[1], TRUE, suite).ok
    /\ validate_run_artifact(candidate_run.value, TRUE, suite).ok

\* the exit code is 1 exactly when --no-fail-on-regression is absent and the
\* report written has a regression or, with --fail-on-uncertain, an uncertain
\* task, and 0 otherwise; without --no-fail-on-regression it is 1 exactly
\* when summary.passed is false
ExitCodeIsOfReport ==
    /\ command.result.output # <<>>
    /\ report.made
    /\ report.value = command.result.output[1]
    /\ command.exit_code \in {0, 1}
    /\ command.exit_code = 1 <=>
          /\ ~command.args.no_fail_on_regression
          /\ \/ report.value.summary.regressions > 0
             \/ /\ command.args.fail_on_uncertain
                /\ report.value.summary.uncertain > 0
    /\ ~command.args.no_fail_on_regression =>
          (command.exit_code = 1 <=> ~report.value.summary.passed)

\* C18, as stated: given two artifacts that pass validation, the compare
\* command returns 1 exactly when --no-fail-on-regression is absent and the
\* comparison has a regression or (with --fail-on-uncertain) an uncertain
\* task, and 0 otherwise
C18_ExitCodeOfValidArtifacts == ComparedValid => ExitCodeIsOfReport

\* C18, amended: given two artifacts that pass validation and policy options
\* that _policy_from_args accepts, the compare command returns 1 exactly when
\* --no-fail-on-regression is absent and the comparison has a regression or
\* (with --fail-on-uncertain) an uncertain task, and 0 otherwise; without
\* --no-fail-on-regression that is 1 exactly when summary.passed is false.
\* With options that _policy_from_args rejects the command returns 2.
C18_ExitCodeOfValidArtifactsAndOptions ==
    ComparedValid =>
       IF _policy_from_args(command.args).ok THEN ExitCodeIsOfReport
       ELSE command.exit_code = 2 /\ ~report.made

\* the command returned 1 for an uncertain task alone
C18_FailedOnUncertain ==
    /\ ComparedValid
    /\ command.args.fail_on_uncertain
    /\ ~command.args.no_fail_on_regression
    /\ report.made
    /\ report.value.summary.regressions = 0
    /\ report.value.summary.uncertain > 0
    /\ command.exit_code = 1

\* C20: when the baseline or the candidate artifact fails validation against
\* the suite, the compare command returns 2, makes no comparison and writes
\* no comparison report
C20_InvalidArtifactExitsTwo ==
    (/\ command.ran
     /\ command.name = "compare"
     /\ BaselineRead # <<>>
     /\ \/ ~validate_run_artifact(BaselineRead[1], TRUE, suite).ok
        \/ ~validate_run_artifact(candidate_run.value, TRUE, suite).ok)
    => /\ command.exit_code = 2
       /\ command.result.output = <<>>
       /\ ~report.made

\* the candidate file was overwritten, the baseline is a valid artifact, the
\* options are the defaults, and the command returned 2
C20_OverwrittenCandidate ==
    /\ command.ran
    /\ command.name = "compare"
    /\ command.args.baseline = "baseline"
    /\ validate_run_artifact(baseline_run.value, TRUE, suite).ok
    /\ candidate_run.value = [k \in {"run_id"} |-> <<"b", "a", "d">>]
    /\ _policy_from_args(command.args).ok
    /\ command.exit_code = 2

\* a step of the baseline promote command
PromoteStep ==
    /\ command'.ran
    /\ command'.name = "promote"
    /\ command' # command \/ registry' # registry

\* the current entry of the name before the step, and after it
ExistingEntry == get_baseline_entry(registry, suite.name, command'.args.baseline_name)
EntryAfter == get_baseline_entry(registry', suite.name, command'.args.baseline_name)

\* what the file named by --candidate holds
CandidateRead ==
    IF command'.args.candidate = "baseline" THEN baseline_run.value
    ELSE candidate_run.value

\* the candidate is compared against the current baseline and fails: a
\* regression, or an uncertain task with --fail-on-uncertain
FailsAgainstCurrent ==
    /\ ExistingEntry # <<>>
    /\ validate_run_artifact(CandidateRead, TRUE, suite).ok
    /\ _policy_from_args(command'.args).ok
    /\ LET summary == compare_runs(suite, ExistingEntry[1].run_path, CandidateRead,
                                   _policy_from_args(command'.args).value,
                                   command'.draws).summary
       IN  \/ summary.regressions > 0
           \/ command'.args.fail_on_uncertain /\ summary.uncertain > 0

\* the candidate is the current baseline and the newest entry of a history
\* that kept what it had
CandidateIsCurrent ==
    /\ EntryAfter # <<>>
    /\ EntryAfter[1].run_path = CandidateRead
    /\ registry'[suite.name][command'.args.baseline_name].history
         = Append(IF ExistingEntry = <<>> THEN <<>>
                  ELSE registry[suite.name][command'.args.baseline_name].history,
                  EntryAfter[1])

\* C19: baseline promote of a candidate that fails the comparison against
\* the current baseline returns 2 and leaves the registry as it was without
\* --allow-regression, and with it returns 0 and makes the candidate the
\* current baseline; when the name has no baseline a valid candidate is
\* promotions without any comparison
C19_PromoteGuardsBaseline ==
    [][PromoteStep =>
          /\ (FailsAgainstCurrent /\ ~command'.args.allow_regression) =>
                /\ command'.exit_code = 2
                /\ registry' = registry
          /\ (FailsAgainstCurrent /\ command'.args.allow_regression) =>
                /\ command'.exit_code = 0
                /\ CandidateIsCurrent
          /\ (/\ ExistingEntry = <<>>
              /\ validate_run_artifact(CandidateRead, TRUE, suite).ok) =>
                /\ command'.exit_code = 0
                /\ command'.result.compare = <<>>
                /\ CandidateIsCurrent
                /\ EntryAfter[1].compare_summary = <<>>]_vars

\* a candidate with a regression against the current baseline was promotions
\* with --allow-regression and is the second entry of the history
C19_PromotedDespiteRegression ==
    /\ command.ran
    /\ command.name = "promote"
    /\ command.args.allow_regression
    /\ command.exit_code = 0
    /\ Len(registry[suite.name]["stable"].history) = 2
    /\ registry[suite.name]["stable"].current.compare_summary # <<>>
    /\ registry[suite.name]["stable"].current.compare_summary[1].regressions > 0
    /\ registry[suite.name]["stable"].current.run_path = candidate_run.value
    /\ registry[suite.name]["stable"].history[1].run_path = baseline_run.value

(* ------------------------------ claims: scores and summary ------------ *)

\* the cases of the i-th suite task that did not fail, in case order
Included(i) ==
    SelectSeq(suite.tasks[i].cases,
              LAMBDA case : ~CaseFailed(adapter, suite.tasks[i], case))

\* the metric over the expected and predicted values of those cases
MetricOfIncluded(i) ==
    compute_metric(
        suite.tasks[i].metric,
        [k \in 1..Len(Included(i)) |->
            Get(Included(i)[k].expected, suite.tasks[i].expected_key, None)],
        [k \in 1..Len(Included(i)) |->
            predict(adapter, suite.tasks[i], Included(i)[k]).output[
                suite.tasks[i].prediction_key]],
        suite.tasks[i].positive_label)

\* C21: in every record run_benchmark returns, a task's score is the metric
\* over exactly the (expected, predicted) pairs of its cases that did not
\* fail, in case order, and is null if and only if every case failed
C21_ScoreOverIncludedPairs ==
    (run.called /\ run.ok) =>
       \A i \in 1..Len(suite.tasks) :
          /\ Included(i) # <<>> =>
                /\ MetricOfIncluded(i).ok
                /\ run.value.task_results[i].score = MetricOfIncluded(i).v
          /\ run.value.task_results[i].score = NoneF
                <=> \A j \in 1..Len(suite.tasks[i].cases) :
                       CaseFailed(adapter, suite.tasks[i], suite.tasks[i].cases[j])

\* a record in which the first task is scored over two pairs that do not
\* score like the first pair alone
C21_ScoredOverTwoPairs ==
    /\ run.called
    /\ run.ok
    /\ Len(Included(1)) = 2
    /\ run.value.task_results[1].score
         # compute_metric(suite.tasks[1].metric,
                          <<Get(Included(1)[1].expected, suite.tasks[1].expected_key, None)>>,
                          <<run.value.task_results[1].case_results[1].predicted>>,
                          suite.tasks[1].positive_label).v

\* the (task, k) pairs for k up to the task's value of a counter: as many as
\* the sum of the counter over the task results
Counted(task_results, counter) ==
    {<<i, k>> \in (1..Len(task_results)) \X (1..MaxCases + 1) :
        k <= task_results[i][counter]}

\* C22: in every record run_benchmark returns, tasks_total is the number of
\* suite tasks, cases_total and case_failures are the sums of the per-task
\* values, tasks_with_errors is the number of tasks with case_failures > 0
\* or a null score, and all_cases_succeeded is (case_failures == 0)
C22_SummaryFromTaskResults ==
    (run.called /\ run.ok) =>
       /\ run.value.summary.tasks_total = Len(suite.tasks)
       /\ run.value.summary.cases_total
            = Cardinality(Counted(run.value.task_results, "cases_total"))
       /\ run.value.summary.case_failures
            = Cardinality(Counted(run.value.task_results, "case_failures"))
       /\ run.value.summary.tasks_with_errors
            = Cardinality({i \in 1..Len(run.value.task_results) :
                             \/ run.value.task_results[i].case_failures > 0
                             \/ run.value.task_results[i].score = NoneF})
       /\ run.value.summary.all_cases_succeeded
            <=> run.value.summary.case_failures = 0

\* a record of two tasks: one with a failed case and a score, one with none
\* failed; one task with errors, and not all cases succeeded
C22_OneTaskWithErrors ==
    /\ run.called
    /\ run.ok
    /\ Len(run.value.task_results) = 2
    /\ run.value.task_results[1].case_failures = 1
    /\ run.value.task_results[1].score # NoneF
    /\ run.value.task_results[2].case_failures = 0
    /\ run.value.summary.tasks_with_errors = 1
    /\ run.value.summary.cases_total = 3
    /\ ~run.value.summary.all_cases_succeeded

(* ------------------------------ claims: one task at a time ------------ *)

\* a suite with its tasks in the opposite order
Reversed(s) == [s EXCEPT !.tasks = [k \in 1..Len(s.tasks) |-> s.tasks[Len(s.tasks) + 1 - k]]]

\* a record with the results of every task but one changed: "removed"
\* drops the other entries, "failed" makes every case of theirs fail and
\* their score null, "higher" raises their score by one
OthersChanged(r, task_id, how) ==
    IF how = "removed"
    THEN [r EXCEPT !["task_results"] =
             SelectSeq(r["task_results"], LAMBDA entry : entry["task_id"] = task_id)]
    ELSE [r EXCEPT !["task_results"] =
             [k \in 1..Len(r["task_results"]) |->
                 IF r["task_results"][k]["task_id"] = task_id
                 THEN r["task_results"][k]
                 ELSE IF how = "higher"
                 THEN [r["task_results"][k] EXCEPT
                          !["score"] = IF @ = NoneF THEN One ELSE FAdd(@, One)]
                 ELSE [r["task_results"][k] EXCEPT
                          !["score"] = NoneF,
                          !["case_failures"] = r["task_results"][k]["cases_total"],
                          !["case_results"] =
                              [c \in 1..Len(r["task_results"][k]["case_results"]) |->
                                  [r["task_results"][k]["case_results"][c] EXCEPT
                                      !["predicted"] = None, !["error"] = Str(1)]]]]]

\* the ci_low, ci_high, p_regression and status that a comparison of two
\* records under the policy of the report gives the task with an id, for
\* every draw its rngs can make
EntriesOf(s, baseline, candidate, task_id) ==
    {LET entry == compare_runs(s, baseline, candidate, report.value.policy, draws)
                     .task_comparisons[CHOOSE k \in 1..Len(s.tasks) :
                                           s.tasks[k].task_id = task_id]
     IN  <<entry.ci_low, entry.ci_high, entry.p_regression, entry.status>> :
        draws \in DrawsFrom(s, baseline, candidate, report.value.policy, 1)}

\* C23: with a seed, the status, ci_low, ci_high and p_regression of a task
\* are those of a comparison in which the results of every other task are
\* missing from both records, or changed in both, with the task first or
\* last in the suite
C23_OtherTasksDoNotMatter ==
    (report.made /\ report.value.policy.bootstrap_seed # None) =>
       \A s \in {suite, Reversed(suite)} :
          \A i \in 1..Len(s.tasks) :
             \A entries \in {IF s = suite
                             THEN {<<Comparison(i).ci_low, Comparison(i).ci_high,
                                     Comparison(i).p_regression, Comparison(i).status>>}
                             ELSE EntriesOf(s, BaselineRead[1], candidate_run.value,
                                            s.tasks[i].task_id)} :
                \A how \in {<<"removed", "removed">>, <<"failed", "higher">>} :
                   EntriesOf(s,
                             OthersChanged(BaselineRead[1], s.tasks[i].task_id, how[1]),
                             OthersChanged(candidate_run.value, s.tasks[i].task_id, how[2]),
                             s.tasks[i].task_id)
                      = entries

\* a seeded report in which the first task was resampled into an interval
\* and the other task passed, though it regresses once the baseline's entry
\* for it is changed; and the first task is resampled into an interval as
\* the last task of the suite with the other missing from both records
C23_ResampledNextToChanged ==
    /\ report.made
    /\ report.value.policy.bootstrap_seed # None
    /\ Len(suite.tasks) = 2
    /\ Comparison(1).ci_low # NoneF
    /\ Comparison(2).status = PASS
    /\ \E e \in EntriesOf(suite,
                          OthersChanged(BaselineRead[1], suite.tasks[1].task_id, "higher"),
                          candidate_run.value, suite.tasks[2].task_id) :
          e[4] # PASS
    /\ \E e \in EntriesOf(Reversed(suite),
                          OthersChanged(BaselineRead[1], suite.tasks[1].task_id, "removed"),
                          OthersChanged(candidate_run.value, suite.tasks[1].task_id,
                                        "removed"),
                          suite.tasks[1].task_id) :
          e[1] # NoneF

(* ------------------------------ claims: f1 and quantile --------------- *)

\* the case results of the i-th task of the record that have no error
Scored(i) == SelectSeq(run.value.task_results[i].case_results, Succeeded)

\* the scored cases of the i-th task whose expected value is, or is not, the
\* positive label and whose predicted value is, or is not
CountOf(i, expected_positive, predicted_positive) ==
    Cardinality({k \in 1..Len(Scored(i)) :
        /\ (Scored(i)[k].expected = suite.tasks[i].positive_label) = expected_positive
        /\ (Scored(i)[k].predicted = suite.tasks[i].positive_label) = predicted_positive})

Quantile(values, probability) ==
    /\ ~quantile.called
    /\ quantile' = [called |-> TRUE, values |-> values, probability |-> probability,
                    result |-> _quantile(values, probability)]
    /\ UNCHANGED <<suite, adapter, run, payload, edits, verdict, baseline_run,
                   candidate_run, policy, report, registry, command, promotions>>

\* the probabilities: below 0, 0, the alpha / 2 of the default policy, the
\* quartiles, 1 - alpha / 2, 1 and above 1
Probabilities ==
    {<<-1, 2>>, Zero, <<1, 40>>, <<1, 4>>, <<1, 2>>, <<3, 4>>, <<39, 40>>, One, <<3, 2>>}

\* the samples hold up to one value more than a resampling makes
NextQuantile ==
    \E n \in 0..MaxResamples + 1 :
       \E values \in [1..n -> {<<-1, 1>>, Zero, <<1, 2>>, One}],
          probability \in Probabilities :
          Quantile(values, probability)

SpecQuantile == InitCli /\ [][NextQuantile]_vars

\* the k-th smallest value of a sample
AtRank(values, k) ==
    CHOOSE x \in {values[j] : j \in 1..Len(values)} :
        /\ Cardinality({j \in 1..Len(values) : FLt(values[j], x)}) < k
        /\ k <= Cardinality({j \in 1..Len(values) : FLe(values[j], x)})

\* C25: the quantile function fails on an empty sample; for a sample of
\* size n > 0 it returns the minimum for a probability <= 0, the maximum for
\* a probability >= 1 and otherwise the linear interpolation between the
\* sorted values at ranks floor(p*(n-1)) and floor(p*(n-1))+1 (capped at
\* n-1); the result lies between the minimum and the maximum and does not
\* decrease when the probability grows
C25_QuantileInterpolates ==
    quantile.called =>
       LET values == quantile.values
           n == Len(values)
           p == quantile.probability
           position == FMul(p, <<n - 1, 1>>)
           low == AtRank(values, FFloor(position) + 1)
           high == AtRank(values, IF FFloor(position) + 2 <= n
                                  THEN FFloor(position) + 2 ELSE n)
       IN  IF n = 0 THEN ~quantile.result.ok
           ELSE /\ quantile.result.ok
                /\ FLe(p, Zero) => quantile.result.v = AtRank(values, 1)
                /\ FLe(One, p) => quantile.result.v = AtRank(values, n)
                /\ (FLt(Zero, p) /\ FLt(p, One)) =>
                      quantile.result.v
                         = FAdd(low, FMul(FSub(high, low),
                                          FSub(position, <<FFloor(position), 1>>)))
                /\ FLe(AtRank(values, 1), quantile.result.v)
                /\ FLe(quantile.result.v, AtRank(values, n))
                /\ \A q \in Probabilities :
                      FLe(p, q) => FLe(quantile.result.v, _quantile(values, q).v)

\* the quantile of an unsorted sample of three values falls strictly between
\* two of them
C25_BetweenTwoValues ==
    /\ quantile.called
    /\ quantile.values = <<One, <<-1, 1>>, Zero>>
    /\ quantile.probability = <<3, 4>>
    /\ quantile.result.v = <<1, 2>>

(* ------------------------------ claims: the baseline registry --------- *)

\* promote_baseline(...) is called with a candidate file that is missing,
\* holds JSON that is no object, or holds an object; promotions lists the calls
\* with what each returned: the current entry, or nothing when it raised
PromoteBaseline(suite_name, baseline_name, candidate_file) ==
    /\ Len(promotions) <= MaxPromotions
    /\ \E returned \in {IF ~candidate_file.exists \/ ~candidate_file.object THEN <<>>
                        ELSE <<promote_baseline(registry, suite_name, suite.version,
                                                baseline_name, candidate_file.holds, <<>>)>>} :
          /\ registry' = IF returned = <<>> THEN registry ELSE returned[1]
          /\ promotions' = Append(promotions,
                                [suite_name |-> suite_name,
                                 baseline_name |-> baseline_name,
                                 current |-> IF returned = <<>> THEN <<>>
                                             ELSE <<returned[1][suite_name][baseline_name].current>>])
    /\ UNCHANGED <<suite, adapter, run, payload, edits, verdict, baseline_run,
                   candidate_run, policy, report, command, quantile>>

\* two suites, two baseline names, and four candidate files: none, a JSON
\* list, and two run records
NextRegistry ==
    \E suite_name \in {suite.name, <<"o">>}, baseline_name \in {"stable", "nightly"} :
       \E candidate_file \in
             {[exists |-> FALSE, object |-> FALSE, holds |-> <<>>],
              [exists |-> TRUE, object |-> FALSE, holds |-> <<>>]}
             \cup {[exists |-> TRUE, object |-> TRUE,
                    holds |-> [k \in {"run_id", "summary"} |->
                                  IF k = "run_id" THEN run_id ELSE None]] :
                      run_id \in {Str(1), Str(2)}} :
          PromoteBaseline(suite_name, baseline_name, candidate_file)

SpecRegistry == InitCli /\ [][NextRegistry]_vars

\* the entries the calls for one suite and baseline name returned, in order
ReturnedFor(suite_name, baseline_name) ==
    LET calls == SelectSeq(promotions,
                           LAMBDA call : /\ call.suite_name = suite_name
                                         /\ call.baseline_name = baseline_name
                                         /\ call.current # <<>>)
    IN  [i \in 1..Len(calls) |-> calls[i].current[1]]

\* C26: after any sequence of promote_baseline calls, failing ones included,
\* on a registry that starts empty, every suite and baseline name with an
\* entry has as its history exactly the entries its successful promotions
\* returned, in order, and as its current the last of them; so the history
\* is as long as the successful promotions of the pair are many, earlier
\* entries are neither modified nor removed, and a promotion under one name
\* leaves every other suite and baseline name as it was
C26_HistoryIsThePromotions ==
    /\ \A suite_name \in DOMAIN registry :
          \A baseline_name \in DOMAIN registry[suite_name] :
             LET entry == registry[suite_name][baseline_name]
             IN  /\ entry.history = ReturnedFor(suite_name, baseline_name)
                 /\ entry.history # <<>>
                 /\ entry.current = entry.history[Len(entry.history)]
                 /\ get_baseline_entry(registry, suite_name, baseline_name) = <<entry.current>>
    /\ \A i \in 1..Len(promotions) :
          promotions[i].current # <<>> =>
             /\ promotions[i].suite_name \in DOMAIN registry
             /\ promotions[i].baseline_name \in DOMAIN registry[promotions[i].suite_name]

\* a pair promotions twice with a failing call in between, next to another
\* baseline name of the same suite
C26_TwoPromotionsAroundAFailure ==
    /\ Len(promotions) = 3
    /\ promotions[1].current # <<>>
    /\ promotions[2].current = <<>>
    /\ promotions[3].current # <<>>
    /\ promotions[1].suite_name = promotions[3].suite_name
    /\ promotions[1].baseline_name = promotions[3].baseline_name
    /\ promotions[1].current # promotions[3].current
    /\ Len(registry[promotions[1].suite_name][promotions[1].baseline_name].history) = 2

(* ------------------------------ claims: the fields of a comparison ---- *)

\* C27: in every task comparison of a report the status is pass, regression
\* or uncertain; delta and regression_amount are null exactly when the task
\* or a score is missing in the baseline or the candidate record; ci_low,
\* ci_high and p_regression are all null or all non-null, and non-null only
\* if bootstrap is enabled and paired_cases >= 2; the status is uncertain
\* only when bootstrap is enabled
C27_ComparisonFieldsAgree ==
    report.made =>
        \A i \in 1..Len(suite.tasks) :
            /\ Comparison(i).status \in {PASS, REGRESSION, UNCERTAIN}
            /\ (Comparison(i).delta = NoneF) <=> ~BothScored(i)
            /\ (Comparison(i).regression_amount = NoneF) <=> ~BothScored(i)
            /\ (Comparison(i).ci_low = NoneF) <=> (Comparison(i).ci_high = NoneF)
            /\ (Comparison(i).ci_low = NoneF) <=> (Comparison(i).p_regression = NoneF)
            /\ Comparison(i).ci_low # NoneF =>
                  /\ policy.value.bootstrap_resamples > 0
                  /\ Comparison(i).paired_cases >= 2
            /\ Comparison(i).status = UNCERTAIN => policy.value.bootstrap_resamples > 0

\* a report with a task that is not in the candidate record, a task with
\* statistics and an uncertain task
C27_MissingNextToResampled ==
    /\ report.made
    /\ \E i \in 1..Len(suite.tasks) :
          /\ ~Holds(candidate_run.value, suite.tasks[i].task_id)
          /\ Comparison(i).delta = NoneF
    /\ \E i \in 1..Len(suite.tasks) :
          /\ Comparison(i).ci_low # NoneF
          /\ Comparison(i).status = UNCERTAIN

(* ------------------------------ claims: the statistics --------------- *)

\* the comparisons that resample: the records of NextCompare, compared
\* under the policies with bootstrap enabled
NextResample ==
    \/ \E a \in AdaptersToCompare(suite),
          n \in {n \in {Len(suite.tasks) - 1, Len(suite.tasks)} : n >= 1} :
          RunBaseline(a, n)
    \/ \E a \in AdaptersToCompare(suite),
          n \in {n \in {Len(suite.tasks) - 1, Len(suite.tasks)} : n >= 1} :
          RunCandidate(a, n)
    \/ /\ baseline_run.called
       /\ candidate_run.called
       /\ ~report.made
       /\ \E p \in {p \in Policies : bootstrap_enabled(p)} :
             \E draws \in DrawsFrom(suite, baseline_run.value,
                                    candidate_run.value, p, 1) :
                 Compare(p, draws)

SpecResample == InitCompare /\ [][NextResample]_vars

\* the regression amounts of the resamples of the i-th suite task under draws
AmountsOf(i, draws) ==
    LET task == suite.tasks[i]
        pairs == _paired_cases(Find(_task_map(baseline_run.value), task.task_id)[1],
                               Find(_task_map(candidate_run.value), task.task_id)[1])
    IN  <<>> \o [r \in 1..Len(draws) |->
                    Resample(task.metric, metric_direction(task.metric),
                             task.positive_label, pairs, draws[r]).v]

\* the draws the rng of the i-th suite task can have made
DrawsOf(i) ==
    TaskDraws(suite.tasks[i], i - 1, policy.value,
              Find(_task_map(baseline_run.value), suite.tasks[i].task_id),
              Find(_task_map(candidate_run.value), suite.tasks[i].task_id))

\* C28: a task comparison with bootstrap statistics, under a confidence
\* level strictly between 0 and 1, has ci_low <= ci_high and
\* 0 <= p_regression <= 1, so that "CI confirms" (ci_low > threshold) and
\* "CI rejects" (ci_high <= threshold) exclude each other and the status is
\* that of exactly one of the four branches; and p_regression is the
\* fraction of the resamples whose regression amount exceeds the threshold;
\* the interval of the same resamples is ordered under the confidence
\* levels 1/100, 1/2 and 99/100 as well
C28_IntervalOrdered ==
    report.made =>
        \A i \in 1..Len(suite.tasks) :
            (/\ Comparison(i).ci_low # NoneF
             /\ FLt(Zero, policy.value.confidence_level)
             /\ FLt(policy.value.confidence_level, One)) =>
                /\ FLe(Comparison(i).ci_low, Comparison(i).ci_high)
                /\ FLe(Zero, Comparison(i).p_regression)
                /\ FLe(Comparison(i).p_regression, One)
                /\ ~(/\ FGt(Comparison(i).ci_low, Comparison(i).threshold)
                     /\ FLe(Comparison(i).ci_high, Comparison(i).threshold))
                /\ Cardinality(
                      {branch \in {<<PASS, FLe(Comparison(i).regression_amount,
                                                Comparison(i).threshold)>>,
                                   <<REGRESSION, /\ FGt(Comparison(i).regression_amount,
                                                        Comparison(i).threshold)
                                                 /\ FGt(Comparison(i).ci_low,
                                                        Comparison(i).threshold)>>,
                                   <<PASS, /\ FGt(Comparison(i).regression_amount,
                                                  Comparison(i).threshold)
                                           /\ FLe(Comparison(i).ci_high,
                                                  Comparison(i).threshold)>>,
                                   <<UNCERTAIN, /\ FGt(Comparison(i).regression_amount,
                                                       Comparison(i).threshold)
                                                /\ FLe(Comparison(i).ci_low,
                                                       Comparison(i).threshold)
                                                /\ FGt(Comparison(i).ci_high,
                                                       Comparison(i).threshold)>>} :
                          branch[2]}) = 1
                /\ \E draws \in DrawsOf(i) :
                      \E amounts \in {AmountsOf(i, draws)} :
                         /\ Comparison(i).ci_low
                               = _quantile(amounts, FDiv(FSub(One, policy.value.confidence_level),
                                                         <<2, 1>>)).v
                         /\ Comparison(i).ci_high
                               = _quantile(amounts,
                                           FSub(One, FDiv(FSub(One, policy.value.confidence_level),
                                                          <<2, 1>>))).v
                         /\ Comparison(i).p_regression
                               = Frac(Cardinality({r \in 1..Len(amounts) :
                                                     FGt(amounts[r], Comparison(i).threshold)}),
                                      Len(amounts))
                         /\ \A level \in {<<1, 100>>, <<1, 2>>, <<99, 100>>} :
                               FLe(_quantile(amounts, FDiv(FSub(One, level), <<2, 1>>)).v,
                                   _quantile(amounts, FSub(One, FDiv(FSub(One, level),
                                                                     <<2, 1>>))).v)

\* a task whose resamples are partly over the threshold, partly on it
C28_HalfOfTheResamplesOver ==
    /\ report.made
    /\ \E i \in 1..Len(suite.tasks) :
          /\ Comparison(i).ci_low # NoneF
          /\ FLt(Comparison(i).ci_low, Comparison(i).ci_high)
          /\ FLt(Zero, Comparison(i).p_regression)
          /\ FLt(Comparison(i).p_regression, One)

(* ------------------------------ claims: a higher threshold ------------ *)

\* the status of the i-th suite task when the records of the report are
\* compared under a tolerance, a min_effect_size and the draws of its rng
StatusUnder(i, regression_tolerance, min_effect_size, draws) ==
    CompareTask([suite.tasks[i] EXCEPT !.regression_tolerance = regression_tolerance],
                [policy.value EXCEPT !.min_effect_size = min_effect_size],
                Find(_task_map(baseline_run.value), suite.tasks[i].task_id),
                Find(_task_map(candidate_run.value), suite.tasks[i].task_id),
                draws).comparison.status

\* the status of the i-th comparison of the report under a threshold, from
\* its regression amount and the interval of the resamples it was made with
StatusOfReported(i, threshold) ==
    IF policy.value.bootstrap_resamples > 0
    THEN Reclassify(PointEstimate(Comparison(i).regression_amount, threshold),
                    Comparison(i).regression_amount, threshold,
                    [some |-> Comparison(i).ci_low # NoneF,
                     ci_low |-> Comparison(i).ci_low,
                     ci_high |-> Comparison(i).ci_high]).status
    ELSE PointEstimate(Comparison(i).regression_amount, threshold).status

\* C29: for the same task data and records, under a policy with bootstrap
\* disabled or with a seed, a task that passes under the threshold
\* max(tolerance, min_effect_size) passes under every threshold reached by
\* raising the tolerance or the min_effect_size: the comparison is made
\* again under the higher threshold, with the draws of the seed. Without a
\* seed the same holds while the resamples stay those the report was made
\* with
C29_HigherThresholdKeepsPass ==
    report.made =>
        \A i \in 1..Len(suite.tasks) :
            Comparison(i).status = PASS =>
                \A regression_tolerance \in {Zero, <<1, 2>>, One},
                   min_effect_size \in {Zero, <<1, 2>>, One} :
                   (/\ FLe(suite.tasks[i].regression_tolerance, regression_tolerance)
                    /\ FLe(policy.value.min_effect_size, min_effect_size)) =>
                      /\ (policy.value.bootstrap_resamples = 0
                          \/ policy.value.bootstrap_seed # None) =>
                            \A draws \in DrawsOf(i) :
                               StatusUnder(i, regression_tolerance, min_effect_size,
                                           draws) = PASS
                      /\ StatusOfReported(i, FMax(regression_tolerance, min_effect_size))
                            = PASS

\* under a seed, a resampled task that is on the threshold 1/2 and passes,
\* and that does not pass under the threshold 0
C29_PassesOnTheThreshold ==
    /\ report.made
    /\ policy.value.bootstrap_seed # None
    /\ \E i \in 1..Len(suite.tasks) :
          /\ Comparison(i).status = PASS
          /\ Comparison(i).ci_low # NoneF
          /\ Comparison(i).regression_amount = <<1, 2>>
          /\ Comparison(i).threshold = <<1, 2>>
          /\ \A draws \in DrawsOf(i) :
                StatusUnder(i, Zero, Zero, draws) # PASS

(* ------------------------------ claims: a metric failure -------------- *)

\* the cases of the i-th suite task that did not fail and hold an expected
\* or a predicted value that is no number
NotNumeric(i) ==
    {j \in 1..Len(suite.tasks[i].cases) :
        /\ ~CaseFailed(adapter, suite.tasks[i], suite.tasks[i].cases[j])
        /\ \/ ~IsNumeric(predict(adapter, suite.tasks[i],
                                 suite.tasks[i].cases[j]).output[
                             suite.tasks[i].prediction_key])
           \/ ~IsNumeric(Get(suite.tasks[i].cases[j].expected,
                             suite.tasks[i].expected_key, None))}

\* C30: run_benchmark raises and returns no record if and only if the metric
\* fails on the pairs of the cases of some task that did not fail, which
\* under mae and rmse is a pair with a null or non-numeric value; runs in
\* which cases failed on the prediction source or on a missing prediction
\* key, and no metric failed, return a record
C30_RaisesIffMetricFails ==
    run.called =>
        /\ ~run.ok <=> \E i \in 1..Len(suite.tasks) :
                          Included(i) # <<>> /\ ~MetricOfIncluded(i).ok
        /\ \A i \in 1..Len(suite.tasks) :
              (Included(i) # <<>> /\ ~MetricOfIncluded(i).ok)
                 <=> (suite.tasks[i].metric \in {MAE, RMSE} /\ NotNumeric(i) # {})
        /\ ~run.ok => ~payload.stored

\* run_benchmark raised over a task with a case that failed and a case that
\* did not fail and holds a value that is no number
C30_RaisedNextToAFailedCase ==
    /\ run.called
    /\ ~run.ok
    /\ \E i \in 1..Len(suite.tasks) :
          /\ NotNumeric(i) # {}
          /\ \E j \in 1..Len(suite.tasks[i].cases) :
                CaseFailed(adapter, suite.tasks[i], suite.tasks[i].cases[j])

====
